---- MODULE Spec2Model ----
(***************************************************************************)
(* Model of the expense tracker (src/src/expenses_tracking): the taxonomy  *)
(* store (categories and their sub-categories), the validation of          *)
(* transactions against it, the batch load of CSV rows, the CSV file the   *)
(* tracker writes and the JSON file of its taxonomy.                       *)
(*                                                                         *)
(* Strings are sequences of character codes (ASCII), so that lowercasing   *)
(* is computed and not assumed.  An Option is a sequence of length 0       *)
(* (None) or 1 (Some).  A NaiveDate is the tuple <<year, month, day>>.     *)
(* A BTreeSet is a set: the derived Ord of Category and SubCategory        *)
(* compares every field, so two elements are one iff all fields agree.     *)
(* An operation of ExpenseTracker is an operator from the tracker (self)   *)
(* and the arguments to the tracker it leaves and the value it returns.    *)
(***************************************************************************)
EXTENDS Integers, Sequences, FiniteSets

VARIABLES valid_categories, transactions, last

vars == <<valid_categories, transactions, last>>

----------------------------------------------------------------------------
(* Bounds *)

\* longest transaction list the model lets the tracker retain
MaxTransactions == 2

\* longest batch of rows handed to load_transactions_from_file
MaxRows == 2

----------------------------------------------------------------------------
(* Strings and options *)

\* str::to_lowercase on one character: 'A'..'Z' (65..90) map to 'a'..'z'
ToLowerChar(c) == IF c \in 65..90 THEN c + 32 ELSE c

\* str::to_lowercase
to_lowercase(s) == [i \in DOMAIN s |-> ToLowerChar(s[i])]

None == <<>>

Some(x) == <<x>>

IsSome(o) == Len(o) = 1

\* Result<(), Box<dyn Error>>
Ok == [ok |-> TRUE]

Err(msg) == [ok |-> FALSE, err |-> msg]

\* the error messages of the source
ErrInvalidCategory == "Invalid category in transaction"

ErrNoSubcategory == "No sub-category set in transaction although the category has some"

ErrSubcategoryNotInCategory == "Sub-category set in transaction does not exist in category"

ErrUnknownCategory == "Sub-category cannot be added because its category is invalid"

ErrDuplicateSubcategory == "The subcategory name already exists"

\* NaiveDate::default()
DefaultDate == <<1970, 1, 1>>

----------------------------------------------------------------------------
(* Taxonomy store *)

\* struct ExpenseTracker
ExpenseTracker(cats, txs) == [valid_categories |-> cats, transactions |-> txs]

\* struct Category with no sub-category
Category(name, date_added) ==
    [name |-> name, date_added |-> date_added, subcategories |-> {}]

\* struct SubCategory
SubCategory(name, date_added) == [name |-> name, date_added |-> date_added]

\* SubCategory::from_name / AsSubCategory::as_subcategory
as_subcategory(name) == SubCategory(to_lowercase(name), DefaultDate)

\* the order of str and of the derived Ord: the first difference decides, and
\* a strict prefix is the lesser
RECURSIVE SeqLess(_, _)
SeqLess(a, b) ==
    IF b = <<>> THEN FALSE
    ELSE IF a = <<>> THEN TRUE
    ELSE IF Head(a) # Head(b) THEN Head(a) < Head(b)
    ELSE SeqLess(Tail(a), Tail(b))

\* a name as a sequence SeqLess orders like the Ord of String when another
\* field follows: every character, the character of code 0 too, is one above
\* its code, and the name ends with 0, below all of them
NameKey(name) == [i \in DOMAIN name |-> name[i] + 1] \o <<0>>

\* derived Ord of SubCategory, name then date_added, as a sequence SeqLess
\* orders
SubCategoryKey(subcategory) ==
    NameKey(subcategory.name) \o subcategory.date_added

\* the least of a set of pairs <<key, element>> with keys that differ
LeastByKey(keyed) ==
    CHOOSE x \in keyed : \A y \in keyed \ {x} : SeqLess(x[1], y[1])

\* a set of pairs <<key, element>> in the ascending order of the keys
RECURSIVE SortedByKey(_)
SortedByKey(keyed) ==
    IF keyed = {} THEN <<>>
    ELSE <<LeastByKey(keyed)>> \o SortedByKey(keyed \ {LeastByKey(keyed)})

\* the elements of a sequence of pairs <<key, element>>
Elements(sorted) == [i \in DOMAIN sorted |-> sorted[i][2]]

\* the iteration of a BTreeSet<SubCategory>: ascending
SortedSubCategories(subcategories) ==
    Elements(SortedByKey({ <<SubCategoryKey(subcategory), subcategory>> :
                             subcategory \in subcategories }))

\* the keys of the sub-categories in their order, each behind a 1
RECURSIVE SubCategoriesKey(_)
SubCategoriesKey(sorted) ==
    IF sorted = <<>> THEN <<>>
    ELSE <<1>> \o SubCategoryKey(Head(sorted)) \o SubCategoriesKey(Tail(sorted))

\* derived Ord of Category: name, then subcategories, then date_added; the
\* set of sub-categories ends with -1, below the 1 that opens an element
CategoryKey(category) ==
    NameKey(category.name)
        \o SubCategoriesKey(SortedSubCategories(category.subcategories))
        \o <<-1>> \o category.date_added

\* the iteration of a BTreeSet<Category>: ascending
SortedCategories(categories) ==
    Elements(SortedByKey({ <<CategoryKey(category), category>> :
                             category \in categories }))

\* the first category of a set in the iteration of the BTreeSet: the least
LeastCategory(categories) ==
    CHOOSE x \in categories :
        \A y \in categories \ {x} : SeqLess(CategoryKey(x), CategoryKey(y))

\* the first sub-category of a set in the iteration of the BTreeSet
LeastSubCategory(subcategories) ==
    CHOOSE x \in subcategories :
        \A y \in subcategories \ {x} :
            SeqLess(SubCategoryKey(x), SubCategoryKey(y))

\* Iterator::find on the categories the closure accepts: the first one in
\* the order of the iteration, or None
FirstCategory(matching) ==
    IF matching = {} THEN None ELSE Some(LeastCategory(matching))

\* Iterator::find on the sub-categories the closure accepts
FirstSubCategory(matching) ==
    IF matching = {} THEN None ELSE Some(LeastSubCategory(matching))

\* the categories the closure of get_category accepts
MatchingCategories(self, category_name) ==
    { category \in self.valid_categories :
        category.name = to_lowercase(category_name) }

\* get_category comparing the stored name with the argument as it is written
get_category_case_sensitive(self, category_name) ==
    FirstCategory({ category \in self.valid_categories :
                      category.name = category_name })

\* ExpenseTracker::get_category (find: the first match of the iteration of
\* the BTreeSet)
get_category(self, category_name) ==
    FirstCategory(MatchingCategories(self, category_name))

\* the sub-categories the closure of get_subcategory accepts
MatchingSubcategories(category, subcategory_name) ==
    { subcategory \in category.subcategories :
        subcategory.name = to_lowercase(subcategory_name) }

\* the first sub-category of that name in the category, if there is the
\* category
SubcategoryIn(maybe_category, subcategory_name) ==
    IF IsSome(maybe_category)
    THEN FirstSubCategory(
             MatchingSubcategories(maybe_category[1], subcategory_name))
    ELSE None

\* ExpenseTracker::get_subcategory
get_subcategory(self, subcategory_name, category_name) ==
    SubcategoryIn(get_category(self, category_name), subcategory_name)

\* the date an optional creation date stands for (None: today's date)
CreationDate(date_creation, today) ==
    IF IsSome(date_creation) THEN date_creation[1] ELSE today

\* add_category looking the category up by the name as it is written
add_category_case_sensitive(self, category_name, date_creation, today) ==
    IF \E category \in self.valid_categories : category.name = category_name
    THEN [self |-> self, ret |-> FALSE]
    ELSE LET new_category == Category(to_lowercase(category_name),
                                      CreationDate(date_creation, today))
         IN  [self |-> [self EXCEPT !.valid_categories = @ \cup {new_category}],
              ret |-> new_category \notin self.valid_categories]

\* add_category dating the category of today whatever date it is given
add_category_dated_today(self, category_name, date_creation, today) ==
    IF IsSome(get_category(self, category_name))
    THEN [self |-> self, ret |-> FALSE]
    ELSE LET new_category == Category(to_lowercase(category_name), today)
         IN  [self |-> [self EXCEPT !.valid_categories = @ \cup {new_category}],
              ret |-> new_category \notin self.valid_categories]

\* ExpenseTracker::add_category: the tracker it leaves and the returned bool
add_category(self, category_name, date_creation, today) ==
    IF IsSome(get_category(self, category_name))
    THEN [self |-> self, ret |-> FALSE]
    ELSE LET new_category == Category(to_lowercase(category_name),
                                      CreationDate(date_creation, today))
         IN  [self |-> [self EXCEPT !.valid_categories = @ \cup {new_category}],
              ret |-> new_category \notin self.valid_categories]

\* the insertion add_subcategory ends with
InsertSubcategory(self, category, subcategory_name, date_creation, today) ==
    [self EXCEPT !.valid_categories =
        (@ \ {category})
        \cup {[category EXCEPT !.subcategories =
                  @ \cup {SubCategory(to_lowercase(subcategory_name),
                                      CreationDate(date_creation, today))}]}]

\* add_subcategory creating the category it does not find
add_subcategory_creating_category(self, category_name, subcategory_name, date_creation, today) ==
    LET maybe_category == get_category(self, category_name) IN
    IF ~IsSome(maybe_category)
    THEN [self |-> InsertSubcategory(
                       [self EXCEPT !.valid_categories =
                           @ \cup {Category(to_lowercase(category_name),
                                            CreationDate(date_creation, today))}],
                       Category(to_lowercase(category_name),
                                CreationDate(date_creation, today)),
                       subcategory_name, date_creation, today),
          ret |-> Ok]
    ELSE IF IsSome(get_subcategory(self, subcategory_name, category_name))
    THEN [self |-> self, ret |-> Err(ErrDuplicateSubcategory)]
    ELSE [self |-> InsertSubcategory(self, maybe_category[1], subcategory_name,
                                     date_creation, today),
          ret |-> Ok]

\* add_subcategory without the check of an existing sub-category
add_subcategory_unchecked(self, category_name, subcategory_name, date_creation, today) ==
    LET maybe_category == get_category(self, category_name) IN
    IF ~IsSome(maybe_category)
    THEN [self |-> self, ret |-> Err(ErrUnknownCategory)]
    ELSE [self |-> InsertSubcategory(self, maybe_category[1], subcategory_name,
                                     date_creation, today),
          ret |-> Ok]

\* add_subcategory refusing a name any category of the store already holds
add_subcategory_unique_in_store(self, category_name, subcategory_name, date_creation, today) ==
    LET maybe_category == get_category(self, category_name) IN
    IF ~IsSome(maybe_category)
    THEN [self |-> self, ret |-> Err(ErrUnknownCategory)]
    ELSE IF \E category \in self.valid_categories :
                MatchingSubcategories(category, subcategory_name) # {}
    THEN [self |-> self, ret |-> Err(ErrDuplicateSubcategory)]
    ELSE [self |-> InsertSubcategory(self, maybe_category[1], subcategory_name,
                                     date_creation, today),
          ret |-> Ok]

\* add_subcategory storing the name of the sub-category as it is written
add_subcategory_keeping_case(self, category_name, subcategory_name, date_creation, today) ==
    LET maybe_category == get_category(self, category_name) IN
    IF ~IsSome(maybe_category)
    THEN [self |-> self, ret |-> Err(ErrUnknownCategory)]
    ELSE IF IsSome(get_subcategory(self, subcategory_name, category_name))
    THEN [self |-> self, ret |-> Err(ErrDuplicateSubcategory)]
    ELSE [self |-> [self EXCEPT !.valid_categories =
                        (@ \ {maybe_category[1]})
                        \cup {[maybe_category[1] EXCEPT !.subcategories =
                                  @ \cup {SubCategory(subcategory_name,
                                                      CreationDate(date_creation, today))}]}],
          ret |-> Ok]

\* add_subcategory removing the sub-category it finds under the name
add_subcategory_removing_existing(self, category_name, subcategory_name, date_creation, today) ==
    LET maybe_category == get_category(self, category_name) IN
    IF ~IsSome(maybe_category)
    THEN [self |-> self, ret |-> Err(ErrUnknownCategory)]
    ELSE IF IsSome(get_subcategory(self, subcategory_name, category_name))
    THEN [self |-> [self EXCEPT !.valid_categories =
                        (@ \ {maybe_category[1]})
                        \cup {[maybe_category[1] EXCEPT !.subcategories =
                                  @ \ MatchingSubcategories(maybe_category[1],
                                                            subcategory_name)]}],
          ret |-> Err(ErrDuplicateSubcategory)]
    ELSE [self |-> InsertSubcategory(self, maybe_category[1], subcategory_name,
                                     date_creation, today),
          ret |-> Ok]

\* add_subcategory giving the category the date of its new sub-category
add_subcategory_redating_category(self, category_name, subcategory_name, date_creation, today) ==
    LET maybe_category == get_category(self, category_name) IN
    IF ~IsSome(maybe_category)
    THEN [self |-> self, ret |-> Err(ErrUnknownCategory)]
    ELSE IF IsSome(get_subcategory(self, subcategory_name, category_name))
    THEN [self |-> self, ret |-> Err(ErrDuplicateSubcategory)]
    ELSE [self |-> [self EXCEPT !.valid_categories =
                        (@ \ {maybe_category[1]})
                        \cup {[maybe_category[1] EXCEPT
                                  !.date_added = CreationDate(date_creation, today),
                                  !.subcategories =
                                      @ \cup {SubCategory(to_lowercase(subcategory_name),
                                                          CreationDate(date_creation, today))}]}],
          ret |-> Ok]

\* ExpenseTracker::add_subcategory: the tracker it leaves and the Result
add_subcategory(self, category_name, subcategory_name, date_creation, today) ==
    LET maybe_category == get_category(self, category_name) IN
    IF ~IsSome(maybe_category)
    THEN [self |-> self, ret |-> Err(ErrUnknownCategory)]
    ELSE IF IsSome(get_subcategory(self, subcategory_name, category_name))
    THEN [self |-> self, ret |-> Err(ErrDuplicateSubcategory)]
    ELSE LET cloned_category == maybe_category[1]
             new_subcategory == SubCategory(to_lowercase(subcategory_name),
                                            CreationDate(date_creation, today))
             extracted_category ==
                 [cloned_category EXCEPT !.subcategories = @ \cup {new_subcategory}]
         IN  [self |-> [self EXCEPT !.valid_categories =
                            (@ \ {cloned_category}) \cup {extracted_category}],
              ret |-> Ok]

----------------------------------------------------------------------------
(* Validation *)

\* struct Transaction
Transaction(date, amount, category_name, subcategory_name, tag, note) ==
    [date |-> date, amount |-> amount, category_name |-> category_name,
     subcategory_name |-> subcategory_name, tag |-> tag, note |-> note]

\* is_transaction_valid not looking at the sub-category of a transaction whose
\* category has none
is_transaction_valid_category_only(self, transaction) ==
    LET maybe_category == get_category(self, transaction.category_name) IN
    IF ~IsSome(maybe_category)
    THEN Err(ErrInvalidCategory)
    ELSE IF maybe_category[1].subcategories = {}
    THEN Ok
    ELSE IF ~IsSome(transaction.subcategory_name)
    THEN Err(ErrNoSubcategory)
    ELSE IF \E subcategory \in maybe_category[1].subcategories :
                subcategory.name = to_lowercase(transaction.subcategory_name[1])
    THEN Ok
    ELSE Err(ErrSubcategoryNotInCategory)

\* is_transaction_valid comparing the sub-category as it is written
is_transaction_valid_case_sensitive(self, transaction) ==
    LET maybe_category == get_category(self, transaction.category_name) IN
    IF ~IsSome(maybe_category)
    THEN Err(ErrInvalidCategory)
    ELSE IF ~IsSome(transaction.subcategory_name)
    THEN (IF maybe_category[1].subcategories = {} THEN Ok
          ELSE Err(ErrNoSubcategory))
    ELSE IF \E subcategory \in maybe_category[1].subcategories :
                subcategory.name = transaction.subcategory_name[1]
    THEN Ok
    ELSE Err(ErrSubcategoryNotInCategory)

\* is_transaction_valid accepting every sub-category of a known category
is_transaction_valid_any_subcategory(self, transaction) ==
    LET maybe_category == get_category(self, transaction.category_name) IN
    IF ~IsSome(maybe_category)
    THEN Err(ErrInvalidCategory)
    ELSE IF ~IsSome(transaction.subcategory_name)
    THEN (IF maybe_category[1].subcategories = {} THEN Ok
          ELSE Err(ErrNoSubcategory))
    ELSE Ok

\* ExpenseTracker::is_transaction_valid
is_transaction_valid(self, transaction) ==
    LET maybe_category == get_category(self, transaction.category_name) IN
    IF ~IsSome(maybe_category)
    THEN Err(ErrInvalidCategory)
    ELSE LET category == maybe_category[1] IN
         IF ~IsSome(transaction.subcategory_name)
         THEN IF category.subcategories = {}
              THEN Ok
              ELSE Err(ErrNoSubcategory)
         ELSE LET subcategory_name == transaction.subcategory_name[1] IN
              IF as_subcategory(subcategory_name) \in category.subcategories
              THEN Ok
              ELSE IF \E subcategory \in category.subcategories :
                          subcategory.name = to_lowercase(subcategory_name)
              THEN Ok
              ELSE Err(ErrSubcategoryNotInCategory)

\* add_transaction adding the category of the transaction when the store
\* does not hold it
add_transaction_creating_category(self, transaction) ==
    LET created == add_category(self, transaction.category_name,
                                Some(transaction.date), transaction.date).self
        valid == is_transaction_valid(created, transaction)
    IN  IF valid.ok
        THEN [self |-> [created EXCEPT !.transactions = Append(@, transaction)],
              ret |-> Ok]
        ELSE [self |-> created, ret |-> valid]

\* add_transaction retaining the transaction before it validates it
add_transaction_retaining(self, transaction) ==
    [self |-> [self EXCEPT !.transactions = Append(@, transaction)],
     ret |-> is_transaction_valid(self, transaction)]

\* add_transaction putting the accepted transaction in front of the list
add_transaction_in_front(self, transaction) ==
    LET valid == is_transaction_valid(self, transaction) IN
    IF valid.ok
    THEN [self |-> [self EXCEPT !.transactions = <<transaction>> \o @],
          ret |-> Ok]
    ELSE [self |-> self, ret |-> valid]

\* ExpenseTracker::add_transaction: the tracker it leaves and the Result
add_transaction(self, transaction) ==
    LET valid == is_transaction_valid(self, transaction) IN
    IF valid.ok
    THEN [self |-> [self EXCEPT !.transactions = Append(@, transaction)],
          ret |-> Ok]
    ELSE [self |-> self, ret |-> valid]

\* struct TransactionParsed
TransactionParsed(date, amount, category, subcategory_name, tag, note) ==
    [date |-> date, amount |-> amount, category |-> category,
     subcategory_name |-> subcategory_name, tag |-> tag, note |-> note]

\* Transaction::from: the transaction that refers to its category
TransactionFrom(transaction_parsed, category) ==
    [date |-> transaction_parsed.date, amount |-> transaction_parsed.amount,
     category |-> category,
     subcategory_name |-> transaction_parsed.subcategory_name,
     tag |-> transaction_parsed.tag, note |-> transaction_parsed.note]

\* resolve_references looking for the sub-category with contains alone
resolve_references_exact_subcategory(transaction_parsed, maybe_category) ==
    IF ~IsSome(maybe_category)
    THEN Err(ErrInvalidCategory)
    ELSE LET category == maybe_category[1] IN
         IF ~IsSome(transaction_parsed.subcategory_name)
         THEN IF category.subcategories = {}
              THEN [ok |-> TRUE,
                    value |-> TransactionFrom(transaction_parsed, category)]
              ELSE Err(ErrNoSubcategory)
         ELSE IF as_subcategory(transaction_parsed.subcategory_name[1])
                     \in category.subcategories
              THEN [ok |-> TRUE,
                    value |-> TransactionFrom(transaction_parsed, category)]
              ELSE Err(ErrSubcategoryNotInCategory)

\* TransactionParsed::resolve_references: the Transaction or the error
resolve_references(transaction_parsed, maybe_category) ==
    IF ~IsSome(maybe_category)
    THEN Err(ErrInvalidCategory)
    ELSE LET category == maybe_category[1] IN
         IF ~IsSome(transaction_parsed.subcategory_name)
         THEN IF category.subcategories = {}
              THEN [ok |-> TRUE,
                    value |-> TransactionFrom(transaction_parsed, category)]
              ELSE Err(ErrNoSubcategory)
         ELSE LET subcategory_name == transaction_parsed.subcategory_name[1] IN
              IF as_subcategory(subcategory_name) \in category.subcategories
              THEN [ok |-> TRUE,
                    value |-> TransactionFrom(transaction_parsed, category)]
              ELSE IF \E subcategory \in category.subcategories :
                          subcategory.name = to_lowercase(subcategory_name)
              THEN [ok |-> TRUE,
                    value |-> TransactionFrom(transaction_parsed, category)]
              ELSE Err(ErrSubcategoryNotInCategory)

----------------------------------------------------------------------------
(* Row parser *)

IsDigit(c) == c \in 48..57

\* the number of leading digits of s, at most max
RECURSIVE DigitPrefixLen(_, _)
DigitPrefixLen(s, max) ==
    IF max = 0 \/ s = <<>> \/ ~IsDigit(Head(s))
    THEN 0
    ELSE 1 + DigitPrefixLen(Tail(s), max - 1)

\* the value of a sequence of digits
RECURSIVE DigitsValue(_)
DigitsValue(s) ==
    IF s = <<>> THEN 0
    ELSE 10 * DigitsValue(SubSeq(s, 1, Len(s) - 1)) + (s[Len(s)] - 48)

DropFirst(s, n) == SubSeq(s, n + 1, Len(s))

IsLeapYear(y) == (y % 4 = 0 /\ y % 100 # 0) \/ y % 400 = 0

DaysInMonth(y, m) ==
    IF m = 2 THEN (IF IsLeapYear(y) THEN 29 ELSE 28)
    ELSE IF m \in {4, 6, 9, 11} THEN 30 ELSE 31

\* chrono::NaiveDate::parse_from_str(text, "%d.%m.%Y") on unsigned, unpadded
\* or zero-padded fields: Some(date) or None for a parse error
ParseDate(text) ==
    LET nd == DigitPrefixLen(text, 2)
        afterDay == DropFirst(text, nd)
        nm == DigitPrefixLen(DropFirst(afterDay, 1), 2)
        afterMonth == DropFirst(DropFirst(afterDay, 1), nm)
        ny == DigitPrefixLen(DropFirst(afterMonth, 1), 4)
        afterYear == DropFirst(DropFirst(afterMonth, 1), ny)
        d == DigitsValue(SubSeq(text, 1, nd))
        m == DigitsValue(SubSeq(DropFirst(afterDay, 1), 1, nm))
        y == DigitsValue(SubSeq(DropFirst(afterMonth, 1), 1, ny))
    IN  IF /\ nd >= 1 /\ afterDay # <<>> /\ Head(afterDay) = 46
           /\ nm >= 1 /\ afterMonth # <<>> /\ Head(afterMonth) = 46
           /\ ny >= 1 /\ afterYear = <<>>
           /\ m \in 1..12 /\ d \in 1..DaysInMonth(y, m)
        THEN Some(<<y, m, d>>)
        ELSE None

\* an f32 by the three fields of its 32 bits: the sign bit, the biased
\* exponent and the fraction
F32(sign, exponent, fraction) ==
    [sign |-> sign, exponent |-> exponent, fraction |-> fraction]

\* 0.0 and -0.0
Zero(sign) == F32(sign, 0, 0)

\* f32::INFINITY and f32::NEG_INFINITY
Infinity(sign) == F32(sign, 255, 0)

\* f32::NAN; the program reads neither the sign nor the payload of a NaN,
\* and every NaN is this one
NaN == F32(0, 255, 4194304)

IsNaN(x) == x.exponent = 255 /\ x.fraction # 0

IsInfinite(x) == x.exponent = 255 /\ x.fraction = 0

IsZero(x) == x.exponent = 0 /\ x.fraction = 0

\* 2^23, the hidden bit of the significand, and 2^24, 2^16
TwoTo23 == 8388608

TwoTo24 == 16777216

TwoTo16 == 65536

\* a finite f32 is Mantissa * 2^Exponent2
Mantissa(x) == IF x.exponent = 0 THEN x.fraction ELSE TwoTo23 + x.fraction

Exponent2(x) == IF x.exponent = 0 THEN 0 - 149 ELSE x.exponent - 150

\* the unary minus of f32
Neg(x) == IF IsNaN(x) THEN NaN ELSE [x EXCEPT !.sign = 1 - @]

\* the f32 comparisons with 0.0: false for NaN, and -0.0 equals 0.0
LessThanZero(amount) == ~IsNaN(amount) /\ amount.sign = 1 /\ ~IsZero(amount)

AtLeastZero(amount) == ~IsNaN(amount) /\ (amount.sign = 0 \/ IsZero(amount))

\* Natural numbers of any size, for the exact values the roundings of f32
\* are taken of: the decimal digits, the least significant first, without a
\* most significant zero (0 is the empty sequence).
RECURSIVE BigTrim(_)
BigTrim(a) ==
    IF a = <<>> THEN <<>>
    ELSE IF a[Len(a)] = 0 THEN BigTrim(SubSeq(a, 1, Len(a) - 1))
    ELSE a

\* a * k + carry, for k up to 2^25
RECURSIVE BigMulAdd(_, _, _)
BigMulAdd(a, k, carry) ==
    IF a = <<>>
    THEN IF carry = 0 THEN <<>>
         ELSE <<carry % 10>> \o BigMulAdd(<<>>, k, carry \div 10)
    ELSE LET t == Head(a) * k + carry IN
         <<t % 10>> \o BigMulAdd(Tail(a), k, t \div 10)

BigMul(a, k) == BigTrim(BigMulAdd(a, k, 0))

BigOfInt(n) == BigMulAdd(<<>>, 0, n)

\* a * 2^e
RECURSIVE BigMulPow2(_, _)
BigMulPow2(a, e) ==
    IF e >= 16 THEN BigMulPow2(BigMul(a, TwoTo16), e - 16) ELSE BigMul(a, 2^e)

\* a * 10^n
BigShift10(a, n) == IF a = <<>> THEN <<>> ELSE [i \in 1..n |-> 0] \o a

RECURSIVE BigCmpFrom(_, _, _)
BigCmpFrom(a, b, i) ==
    IF i = 0 THEN 0
    ELSE IF a[i] # b[i] THEN (IF a[i] < b[i] THEN 0 - 1 ELSE 1)
    ELSE BigCmpFrom(a, b, i - 1)

\* -1, 0 or 1 as a is less than, equal to or greater than b
BigCmp(a, b) ==
    IF Len(a) # Len(b) THEN (IF Len(a) < Len(b) THEN 0 - 1 ELSE 1)
    ELSE BigCmpFrom(a, b, Len(a))

RECURSIVE BigAddCarry(_, _, _)
BigAddCarry(a, b, carry) ==
    IF a = <<>> /\ b = <<>>
    THEN IF carry = 0 THEN <<>> ELSE <<carry>>
    ELSE LET t == (IF a = <<>> THEN 0 ELSE Head(a))
                  + (IF b = <<>> THEN 0 ELSE Head(b)) + carry
         IN  <<t % 10>> \o BigAddCarry(IF a = <<>> THEN <<>> ELSE Tail(a),
                                       IF b = <<>> THEN <<>> ELSE Tail(b),
                                       t \div 10)

BigAdd(a, b) == BigAddCarry(a, b, 0)

RECURSIVE BigSubBorrow(_, _, _)
BigSubBorrow(a, b, borrow) ==
    IF a = <<>> THEN <<>>
    ELSE LET t == Head(a) - (IF b = <<>> THEN 0 ELSE Head(b)) - borrow IN
         <<IF t < 0 THEN t + 10 ELSE t>>
             \o BigSubBorrow(Tail(a), IF b = <<>> THEN <<>> ELSE Tail(b),
                             IF t < 0 THEN 1 ELSE 0)

\* a - b for a >= b
BigSub(a, b) == BigTrim(BigSubBorrow(a, b, 0))

\* One step of Scale, upper being m * 2^24: n / m is at least 2^24 when n
\* is at least upper, and below 2^23 when 2 * n is below upper; the steps
\* are of 16 bits where 16 bits are missing, and of one bit otherwise.
RECURSIVE ScaleStep(_, _, _, _)
ScaleStep(n, m, e, upper) ==
    IF e > 105 THEN [n |-> n, m |-> m, e |-> e]
    ELSE IF BigCmp(n, upper) >= 0
    THEN IF BigCmp(n, BigMul(upper, TwoTo16)) >= 0
         THEN ScaleStep(n, BigMul(m, TwoTo16), e + 16, BigMul(upper, TwoTo16))
         ELSE ScaleStep(n, BigMul(m, 2), e + 1, BigMul(upper, 2))
    ELSE IF e > 0 - 149 /\ BigCmp(BigMul(n, 2), upper) < 0
    THEN IF e - 16 >= 0 - 149 /\ BigCmp(BigMul(n, 2 * TwoTo16), upper) < 0
         THEN ScaleStep(BigMul(n, TwoTo16), m, e - 16, upper)
         ELSE ScaleStep(BigMul(n, 2), m, e - 1, upper)
    ELSE [n |-> n, m |-> m, e |-> e]

\* The fraction n / m times 2^e brought to n' / m' times 2^e' with a
\* quotient of 24 bits (2^23 <= n' / m' < 2^24), or of fewer bits at the
\* least exponent -149 of the subnormal numbers; the search ends above the
\* greatest exponent 104, where the value is beyond the finite numbers.
Scale(n, m, e) == ScaleStep(n, m, e, BigMul(m, TwoTo24))

\* the integer part of n / m, below 2^24, found bit by bit
RECURSIVE Quotient(_, _, _, _)
Quotient(n, m, bit, q) ==
    IF bit < 0 THEN q
    ELSE IF BigCmp(BigMul(m, q + 2^bit), n) <= 0
    THEN Quotient(n, m, bit - 1, q + 2^bit)
    ELSE Quotient(n, m, bit - 1, q)

\* the f32 of a significand of up to 24 bits, or of 2^24, at the exponent e
Pack(sign, significand, e) ==
    IF significand = TwoTo24
    THEN (IF e + 1 > 104 THEN Infinity(sign) ELSE F32(sign, e + 151, 0))
    ELSE IF e > 104 THEN Infinity(sign)
    ELSE IF significand < TwoTo23 THEN F32(sign, 0, significand)
    ELSE F32(sign, e + 150, significand - TwoTo23)

\* roundTiesToEven of q and a rest that is below (c < 0), at (c = 0) or
\* above (c > 0) one half
TiesToEven(q, c) == IF c > 0 \/ (c = 0 /\ q % 2 = 1) THEN q + 1 ELSE q

\* the f32 of the scaled fraction with the integer part q
RoundQuotient(sign, scaled, q) ==
    Pack(sign,
         TiesToEven(q, BigCmp(BigMul(BigSub(scaled.n, BigMul(scaled.m, q)), 2),
                              scaled.m)),
         scaled.e)

\* the f32 of the scaled fraction
RoundScaled(sign, scaled) ==
    IF scaled.e > 105 THEN Infinity(sign)
    ELSE RoundQuotient(sign, scaled, Quotient(scaled.n, scaled.m, 23, 0))

\* the f32 nearest to n / m times 2^e, the even one of two that are as near
\* (IEEE 754 roundTiesToEven), infinite beyond the finite numbers
RoundToF32(sign, n, m, e) ==
    IF n = <<>> THEN Zero(sign) ELSE RoundScaled(sign, Scale(n, m, e))

\* the lesser of the two exponents
MinExponent2(a, b) ==
    IF Exponent2(a) < Exponent2(b) THEN Exponent2(a) ELSE Exponent2(b)

\* the significand of x at the exponent e, not above the one of x
Aligned(x, e) == BigMul(BigOfInt(Mantissa(x)), 2^(Exponent2(x) - e))

\* the exact sum of two magnitudes with their signs: its sign and its
\* magnitude
ExactSum(sign_x, x, sign_y, y) ==
    IF sign_x = sign_y THEN [sign |-> sign_x, n |-> BigAdd(x, y)]
    ELSE IF BigCmp(x, y) >= 0 THEN [sign |-> sign_x, n |-> BigSub(x, y)]
    ELSE [sign |-> sign_y, n |-> BigSub(y, x)]

\* the f32 of an exact sum at the exponent e; an exact zero is 0.0
RoundSum(sum, e) ==
    IF sum.n = <<>> THEN Zero(0) ELSE RoundToF32(sum.sign, sum.n, <<1>>, e)

\* the sum of two finite f32 that are not zero, at their lesser exponent e
FloatAddAt(a, b, e) ==
    RoundSum(ExactSum(a.sign, Aligned(a, e), b.sign, Aligned(b, e)), e)

\* the sum of two finite f32
FloatAddFinite(a, b) ==
    IF IsZero(a) /\ IsZero(b)
    THEN Zero(IF a.sign = 1 /\ b.sign = 1 THEN 1 ELSE 0)
    ELSE IF IsZero(b) THEN a
    ELSE IF IsZero(a) THEN b
    ELSE IF Exponent2(a) - Exponent2(b) >= 26 THEN a
    ELSE IF Exponent2(b) - Exponent2(a) >= 26 THEN b
    ELSE FloatAddAt(a, b, MinExponent2(a, b))

\* the f32 subtraction a - b
FloatSub(a, b) ==
    IF IsNaN(a) \/ IsNaN(b) THEN NaN
    ELSE IF IsInfinite(a)
    THEN IF IsInfinite(b) /\ a.sign = b.sign THEN NaN ELSE a
    ELSE IF IsInfinite(b) THEN Neg(b)
    ELSE FloatAddFinite(a, Neg(b))

\* str::replace('\'', "")
RECURSIVE RemoveQuotes(_)
RemoveQuotes(s) ==
    IF s = <<>> THEN <<>>
    ELSE IF Head(s) = 39 THEN RemoveQuotes(Tail(s))
    ELSE <<Head(s)>> \o RemoveQuotes(Tail(s))

\* the digits of a text as a number, the last digit the least significant
BigOfDigits(digits) ==
    BigTrim([i \in 1..Len(digits) |-> digits[Len(digits) + 1 - i] - 48])

\* the exponent parse_scientific reads: it stops growing from 65536 on
RECURSIVE ExponentValue(_, _)
ExponentValue(digits, value) ==
    IF digits = <<>> THEN value
    ELSE ExponentValue(Tail(digits),
                       IF value < TwoTo16 THEN 10 * value + (Head(digits) - 48)
                       ELSE value)

\* the digits of an exponent: Some(exponent), or None without a digit or
\* with another character
ExponentOfDigits(negative, digits) ==
    IF digits = <<>> \/ \E i \in DOMAIN digits : ~IsDigit(digits[i])
    THEN None
    ELSE Some((IF negative THEN 0 - 1 ELSE 1) * ExponentValue(digits, 0))

\* the text behind the digits of the number: nothing, or e or E, a sign or
\* none, and digits
ExponentOf(rest) ==
    IF rest = <<>> THEN Some(0)
    ELSE IF Head(rest) \notin {101, 69} THEN None
    ELSE IF Len(rest) >= 2 /\ rest[2] \in {43, 45}
    THEN ExponentOfDigits(rest[2] = 45, DropFirst(rest, 2))
    ELSE ExponentOfDigits(FALSE, Tail(rest))

\* parse_inf_nan: "nan", "inf" and "infinity" in any case
ParseInfNan(sign, body) ==
    IF to_lowercase(body) = <<110, 97, 110>> THEN Some(NaN)
    ELSE IF to_lowercase(body) \in { <<105, 110, 102>>,
                                    <<105, 110, 102, 105, 110, 105, 116, 121>> }
    THEN Some(Infinity(sign))
    ELSE None

\* the f32 nearest to mantissa * 10^exponent; a number of 10^39 or more is
\* infinite and one below 10^-45 is zero
Decimal(sign, mantissa, exponent) ==
    IF mantissa = <<>> THEN Zero(sign)
    ELSE IF Len(mantissa) - 1 + exponent >= 39 THEN Infinity(sign)
    ELSE IF Len(mantissa) + exponent <= 0 - 46 THEN Zero(sign)
    ELSE RoundToF32(sign,
                    IF exponent > 0 THEN BigShift10(mantissa, exponent)
                    ELSE mantissa,
                    IF exponent < 0 THEN BigShift10(<<1>>, 0 - exponent)
                    ELSE <<1>>,
                    0)

\* the number of the digits before and behind the point and of the exponent,
\* if there is a digit and the exponent is one
ParseNumber(sign, body, integer, fraction, maybe_exponent) ==
    IF integer \o fraction = <<>> \/ ~IsSome(maybe_exponent)
    THEN ParseInfNan(sign, body)
    ELSE Some(Decimal(sign, BigOfDigits(integer \o fraction),
                      maybe_exponent[1] - Len(fraction)))

\* the text behind the point: nf digits, then the exponent
ParseFraction(sign, body, integer, after_point, nf) ==
    ParseNumber(sign, body, integer, SubSeq(after_point, 1, nf),
                ExponentOf(DropFirst(after_point, nf)))

\* the text without its sign: ni digits, then a point and digits or none,
\* then the exponent
ParseInteger(sign, body, ni) ==
    IF ni < Len(body) /\ body[ni + 1] = 46
    THEN ParseFraction(sign, body, SubSeq(body, 1, ni), DropFirst(body, ni + 1),
                       DigitPrefixLen(DropFirst(body, ni + 1),
                                      Len(body) - ni - 1))
    ELSE ParseNumber(sign, body, SubSeq(body, 1, ni), <<>>,
                     ExponentOf(DropFirst(body, ni)))

\* the text behind the sign
ParseUnsigned(sign, body) ==
    ParseInteger(sign, body, DigitPrefixLen(body, Len(body)))

\* str::parse::<f32>: Some(value) or None for a ParseFloatError.  The text is
\* a sign or none, then "nan", "inf" or "infinity" in any case, or digits
\* with or without a point and an exponent; the value is the f32 nearest to
\* the decimal number.
ParseFloat(s) ==
    IF s # <<>> /\ Head(s) \in {43, 45}
    THEN ParseUnsigned(IF Head(s) = 45 THEN 1 ELSE 0, Tail(s))
    ELSE ParseUnsigned(0, s)

\* parse_amount: Some(amount) or None for the error
parse_amount(amount) ==
    IF amount # <<>> THEN ParseFloat(RemoveQuotes(amount)) ELSE Some(Zero(0))

\* string_to_option
string_to_option(s) == IF s = <<>> THEN None ELSE Some(s)

\* struct TransactionCsv
TransactionCsv(date, amount_out, amount_in, category, subcategory, tag, note) ==
    [date |-> date, amount_out |-> amount_out, amount_in |-> amount_in,
     category |-> category, subcategory |-> subcategory, tag |-> tag,
     note |-> note]

ErrParseDate == "Failed to parse date from CSV transaction"

ErrParseAmountIn == "Failed to parse amount_in from CSV transaction"

ErrParseAmountOut == "Failed to parse amount_out from CSV transaction"

\* try_from after the three parses
TransactionOfParsed(transaction_csv, maybe_date, maybe_amount_in, maybe_amount_out) ==
    IF ~IsSome(maybe_date) THEN Err(ErrParseDate)
    ELSE IF ~IsSome(maybe_amount_in) THEN Err(ErrParseAmountIn)
    ELSE IF ~IsSome(maybe_amount_out) THEN Err(ErrParseAmountOut)
    ELSE [ok |-> TRUE,
          value |-> Transaction(
              maybe_date[1],
              FloatSub(maybe_amount_in[1], maybe_amount_out[1]),
              transaction_csv.category,
              string_to_option(transaction_csv.subcategory),
              string_to_option(transaction_csv.tag),
              string_to_option(transaction_csv.note))]

\* TryFrom<TransactionCsv>: the parsed transaction or the error
try_from(transaction_csv) ==
    TransactionOfParsed(transaction_csv,
                        ParseDate(transaction_csv.date),
                        parse_amount(transaction_csv.amount_in),
                        parse_amount(transaction_csv.amount_out))

\* csv::StringRecord::get(i), the fields counted from 0
StringRecordGet(csv_row, i) ==
    IF i + 1 <= Len(csv_row) THEN Some(csv_row[i + 1]) ELSE None

ErrDateNotFound == "Date not found in the record"

ErrAmountOutNotFound == "Amount out not found in the record"

ErrAmountInNotFound == "Amount in not found in the record"

ErrCategoryNotFound == "Category not found in the record"

\* the chrono::ParseError and the ParseFloatError from_csv_row passes on
ErrChronoParse == "chrono::ParseError"

ErrParseFloat == "ParseFloatError"

\* from_csv_row after the three parses of a record of four fields or more
TransactionOfRecord(csv_row, maybe_date, maybe_amount_in, maybe_amount_out) ==
    IF ~IsSome(maybe_date) THEN Err(ErrChronoParse)
    ELSE IF ~IsSome(maybe_amount_in) THEN Err(ErrParseFloat)
    ELSE IF ~IsSome(maybe_amount_out) THEN Err(ErrParseFloat)
    ELSE [ok |-> TRUE,
          value |-> Transaction(
              maybe_date[1],
              FloatSub(maybe_amount_in[1], maybe_amount_out[1]),
              StringRecordGet(csv_row, 3)[1],
              StringRecordGet(csv_row, 4),
              StringRecordGet(csv_row, 5),
              StringRecordGet(csv_row, 6))]

\* Transaction::from_csv_row on a StringRecord, a sequence of fields: the
\* transaction or the error
from_csv_row(csv_row) ==
    IF ~IsSome(StringRecordGet(csv_row, 0)) THEN Err(ErrDateNotFound)
    ELSE IF ~IsSome(StringRecordGet(csv_row, 1)) THEN Err(ErrAmountOutNotFound)
    ELSE IF ~IsSome(StringRecordGet(csv_row, 2)) THEN Err(ErrAmountInNotFound)
    ELSE IF ~IsSome(StringRecordGet(csv_row, 3)) THEN Err(ErrCategoryNotFound)
    ELSE TransactionOfRecord(csv_row,
                             ParseDate(StringRecordGet(csv_row, 0)[1]),
                             parse_amount(StringRecordGet(csv_row, 2)[1]),
                             parse_amount(StringRecordGet(csv_row, 1)[1]))

----------------------------------------------------------------------------
(* Batch load *)

\* "01.01.1970"
Text01011970 == <<48, 49, 46, 48, 49, 46, 49, 57, 55, 48>>

\* "2.1.1970"
Text211970 == <<50, 46, 49, 46, 49, 57, 55, 48>>

\* "02.01.1970"
Text02011970 == <<48, 50, 46, 48, 49, 46, 49, 57, 55, 48>>

\* "31.02.1970", not a date
Text31021970 == <<51, 49, 46, 48, 50, 46, 49, 57, 55, 48>>

\* the rows of the CSV files handed to load_transactions_from_file
Rows ==
    { \* 01.01.1970,,7.00,Fo,,,
      TransactionCsv(Text01011970, <<>>, <<55, 46, 48, 48>>, <<70, 111>>, <<>>, <<>>, <<>>),
      \* 2.1.1970,5,,fo,G,x,
      TransactionCsv(Text211970, <<53>>, <<>>, <<102, 111>>, <<71>>, <<120>>, <<>>),
      \* 02.01.1970,5.00,,fo,G,x,
      TransactionCsv(Text02011970, <<53, 46, 48, 48>>, <<>>, <<102, 111>>, <<71>>, <<120>>, <<>>),
      \* 31.02.1970,5,,c,g,,
      TransactionCsv(Text31021970, <<53>>, <<>>, <<99>>, <<103>>, <<>>, <<>>) }

\* amount texts that are empty or hold white space only: "", " ", "  ", tab
BlankAmounts == { <<>>, <<32>>, <<32, 32>>, <<9>> }

\* the row 01.01.1970,,<amount_in>,Fo,,,
RowWithAmountIn(amount_in) ==
    TransactionCsv(Text01011970, <<>>, amount_in, <<70, 111>>, <<>>, <<>>, <<>>)

\* amount texts of two decimals that are not the text of their f32:
\* 131072.01 is read as 131072.015625 and written as 131072.02, 16777217.00
\* is read as 16777216, and -0.00 is not without a sign
RoundedAmounts ==
    { <<49, 51, 49, 48, 55, 50, 46, 48, 49>>,
      <<49, 54, 55, 55, 55, 50, 49, 55, 46, 48, 48>>,
      <<45, 48, 46, 48, 48>> }

\* rows of amounts that are not decimal numbers (NaN, blank) or that the f32
\* rounds; the files of the state machine do not hold them
EdgeRows ==
    { RowWithAmountIn(amount_in) :
        amount_in \in BlankAmounts \cup { <<78, 97, 78>> } \cup RoundedAmounts }

\* Transaction::try_from as load_transactions_from_file calls it, tabulated
\* over the rows of the model
TryFromRows ==
    [transaction_csv \in Rows \cup EdgeRows |-> try_from(transaction_csv)]

ErrConvert == "Failed to convert CSV transaction to transaction"

\* the body of the for loop validating the row before it generates the
\* category and the sub-category of the row
LoadRecord_validating_first(self, n_ignored_transactions, transaction, generate_categories_and_sub) ==
    LET added == add_transaction(self, transaction)
        withCategory ==
            IF generate_categories_and_sub
            THEN add_category(added.self, transaction.category_name,
                              Some(transaction.date), transaction.date).self
            ELSE added.self
        withSubcategory ==
            IF generate_categories_and_sub /\ IsSome(transaction.subcategory_name)
            THEN add_subcategory(withCategory, transaction.category_name,
                                 transaction.subcategory_name[1],
                                 Some(transaction.date), transaction.date).self
            ELSE withCategory
    IN  [self |-> withSubcategory,
         n_ignored_transactions |->
             IF added.ret.ok THEN n_ignored_transactions
             ELSE n_ignored_transactions + 1]

\* the body of the for loop ignoring the row whose sub-category
\* add_subcategory refuses
LoadRecord_ignoring_refused_subcategory(self, n_ignored_transactions, transaction, generate_categories_and_sub) ==
    LET withCategory ==
            IF generate_categories_and_sub
            THEN add_category(self, transaction.category_name,
                              Some(transaction.date), transaction.date).self
            ELSE self
        generated ==
            IF generate_categories_and_sub /\ IsSome(transaction.subcategory_name)
            THEN add_subcategory(withCategory, transaction.category_name,
                                 transaction.subcategory_name[1],
                                 Some(transaction.date), transaction.date)
            ELSE [self |-> withCategory, ret |-> Ok]
        added == add_transaction(generated.self, transaction)
    IN  IF ~generated.ret.ok
        THEN [self |-> generated.self,
              n_ignored_transactions |-> n_ignored_transactions + 1]
        ELSE [self |-> added.self,
              n_ignored_transactions |->
                  IF added.ret.ok THEN n_ignored_transactions
                  ELSE n_ignored_transactions + 1]

\* the body of the loop generating the category of the row only
LoadRecord_generating_category_only(self, n_ignored_transactions, transaction, generate_categories_and_sub) ==
    LET withCategory ==
            IF generate_categories_and_sub
            THEN add_category(self, transaction.category_name,
                              Some(transaction.date), transaction.date).self
            ELSE self
        added == add_transaction(withCategory, transaction)
    IN  [self |-> added.self,
         n_ignored_transactions |->
             IF added.ret.ok THEN n_ignored_transactions
             ELSE n_ignored_transactions + 1]

\* the body of the for loop of load_transactions_from_file after the row is
\* parsed: the tracker it leaves and the counter of ignored rows
LoadRecord(self, n_ignored_transactions, transaction, generate_categories_and_sub) ==
    LET withCategory ==
            IF generate_categories_and_sub
            THEN add_category(self, transaction.category_name,
                              Some(transaction.date), transaction.date).self
            ELSE self
        withSubcategory ==
            IF generate_categories_and_sub /\ IsSome(transaction.subcategory_name)
            THEN add_subcategory(withCategory, transaction.category_name,
                                 transaction.subcategory_name[1],
                                 Some(transaction.date), transaction.date).self
            ELSE withCategory
        added == add_transaction(withSubcategory, transaction)
    IN  [self |-> added.self,
         n_ignored_transactions |->
             IF added.ret.ok THEN n_ignored_transactions
             ELSE n_ignored_transactions + 1]

\* the for loop leaving the file at the first row that add_transaction rejects
RECURSIVE LoadRecords_until_rejection(_, _, _, _)
LoadRecords_until_rejection(self, n_ignored_transactions, records, generate_categories_and_sub) ==
    IF records = <<>>
    THEN [self |-> self, n_ignored_transactions |-> n_ignored_transactions,
          ret |-> Ok]
    ELSE LET converted == TryFromRows[Head(records)] IN
         IF ~converted.ok
         THEN [self |-> self, n_ignored_transactions |-> n_ignored_transactions,
               ret |-> Err(ErrConvert)]
         ELSE LET step == LoadRecord(self, n_ignored_transactions,
                                     converted.value,
                                     generate_categories_and_sub)
              IN  IF step.n_ignored_transactions > n_ignored_transactions
                  THEN [self |-> step.self,
                        n_ignored_transactions |-> step.n_ignored_transactions,
                        ret |-> Ok]
                  ELSE LoadRecords_until_rejection(
                           step.self, step.n_ignored_transactions,
                           Tail(records), generate_categories_and_sub)

\* the for loop passing over a row that try_from cannot convert
RECURSIVE LoadRecords_skipping_unparsed(_, _, _, _)
LoadRecords_skipping_unparsed(self, n_ignored_transactions, records, generate_categories_and_sub) ==
    IF records = <<>>
    THEN [self |-> self, n_ignored_transactions |-> n_ignored_transactions,
          ret |-> Ok]
    ELSE LET converted == TryFromRows[Head(records)] IN
         IF ~converted.ok
         THEN LoadRecords_skipping_unparsed(self, n_ignored_transactions,
                                            Tail(records),
                                            generate_categories_and_sub)
         ELSE LET step == LoadRecord(self, n_ignored_transactions,
                                     converted.value,
                                     generate_categories_and_sub)
              IN  LoadRecords_skipping_unparsed(
                      step.self, step.n_ignored_transactions,
                      Tail(records), generate_categories_and_sub)

\* the for loop of load_transactions_from_file over the records of the file
RECURSIVE LoadRecords(_, _, _, _)
LoadRecords(self, n_ignored_transactions, records, generate_categories_and_sub) ==
    IF records = <<>>
    THEN [self |-> self, n_ignored_transactions |-> n_ignored_transactions,
          ret |-> Ok]
    ELSE LET converted == TryFromRows[Head(records)] IN
         IF ~converted.ok
         THEN [self |-> self, n_ignored_transactions |-> n_ignored_transactions,
               ret |-> Err(ErrConvert)]
         ELSE LET step == LoadRecord(self, n_ignored_transactions,
                                     converted.value,
                                     generate_categories_and_sub)
              IN  LoadRecords(step.self, step.n_ignored_transactions,
                              Tail(records), generate_categories_and_sub)

\* ExpenseTracker::load_transactions_from_file on the records of the file: the
\* tracker it leaves, the counter of ignored rows and the Result
load_transactions_from_file(self, records, generate_categories_and_sub) ==
    LoadRecords(self, 0, records, generate_categories_and_sub)

----------------------------------------------------------------------------
(* Output CSV file *)

\* the decimal digits of a natural number
RECURSIVE Digits(_)
Digits(n) ==
    IF n < 10 THEN <<48 + n>> ELSE Digits(n \div 10) \o <<48 + (n % 10)>>

\* the digits of n, padded with zeros on the left up to width digits
ZeroPadded(n, width) ==
    LET digits == Digits(n) IN
    IF Len(digits) >= width THEN digits
    ELSE [i \in 1..(width - Len(digits)) |-> 48] \o digits

\* NaiveDate::format("%d.%m.%Y").to_string() on a year in 0..9999
FormatDate(date) ==
    ZeroPadded(date[3], 2) \o <<46>> \o ZeroPadded(date[2], 2) \o <<46>>
        \o ZeroPadded(date[1], 4)

\* the number of hundredths nearest to the magnitude of a finite f32, the
\* even one of two that are as near
Hundredths(amount) ==
    LET n == Mantissa(amount) * 100
        k == 0 - Exponent2(amount)
    IN  IF k <= 0 THEN BigMulPow2(BigOfInt(n), 0 - k)
        ELSE IF k >= 32 THEN <<>>
        ELSE IF k = 31 THEN (IF n > 2^30 THEN <<1>> ELSE <<>>)
        ELSE LET q == n \div 2^k
                 r == n % 2^k
                 half == 2^(k - 1)
             IN  BigOfInt(IF r > half \/ (r = half /\ q % 2 = 1)
                          THEN q + 1 ELSE q)

\* a number of hundredths as a text with a point before its last two digits
TwoDecimals(hundredths) ==
    [i \in 1..(Len(hundredths) - 2) |-> 48 + hundredths[Len(hundredths) + 1 - i]]
        \o <<46, 48 + hundredths[2], 48 + hundredths[1]>>

\* a number with the zeros that make it one of three digits or more
AtLeastThreeDigits(a) ==
    IF Len(a) >= 3 THEN a ELSE a \o [i \in 1..(3 - Len(a)) |-> 0]

\* format!("{:.2}", amount): the sign of the f32, the digits of the integer
\* part, a point and two decimals; "NaN", "inf" and "-inf"
FormatAmount(amount) ==
    IF IsNaN(amount) THEN <<78, 97, 78>>
    ELSE (IF amount.sign = 1 THEN <<45>> ELSE <<>>)
             \o (IF IsInfinite(amount) THEN <<105, 110, 102>>
                 ELSE TwoDecimals(AtLeastThreeDigits(Hundredths(amount))))

\* Option<String>::unwrap_or("".to_string())
unwrap_or_empty(option) == IF IsSome(option) THEN option[1] ELSE <<>>

\* the record written with the whole amount in the column amount_in
WriteRecord_amount_in_only(transaction) ==
    TransactionCsv(
        FormatDate(transaction.date),
        <<>>,
        FormatAmount(IF LessThanZero(transaction.amount)
                     THEN Neg(transaction.amount)
                     ELSE transaction.amount),
        transaction.category_name,
        unwrap_or_empty(transaction.subcategory_name),
        unwrap_or_empty(transaction.tag),
        unwrap_or_empty(transaction.note))

\* the record write_transactions_to_file writes for one transaction
WriteRecord(transaction) ==
    TransactionCsv(
        FormatDate(transaction.date),
        IF LessThanZero(transaction.amount)
        THEN FormatAmount(Neg(transaction.amount))
        ELSE <<>>,
        IF AtLeastZero(transaction.amount)
        THEN FormatAmount(transaction.amount)
        ELSE <<>>,
        transaction.category_name,
        unwrap_or_empty(transaction.subcategory_name),
        unwrap_or_empty(transaction.tag),
        unwrap_or_empty(transaction.note))

\* ExpenseTracker::write_transactions_to_file: the tracker it leaves, the
\* records of the file under the header, and the Result
write_transactions_to_file(self) ==
    [self |-> self,
     output |-> [i \in DOMAIN self.transactions |->
                    WriteRecord(self.transactions[i])],
     ret |-> Ok]

----------------------------------------------------------------------------
(* Taxonomy file *)

\* Serialize for NaiveDate: the text "%Y-%m-%d" of a year in 0..9999
FormatIsoDate(date) ==
    ZeroPadded(date[1], 4) \o <<45>> \o ZeroPadded(date[2], 2) \o <<45>>
        \o ZeroPadded(date[3], 2)

\* Deserialize for NaiveDate on a text of four, two and two digits: Some(date)
\* or None for the error
ParseIsoDate(text) ==
    LET y == DigitsValue(SubSeq(text, 1, 4))
        m == DigitsValue(SubSeq(text, 6, 7))
        d == DigitsValue(SubSeq(text, 9, 10))
    IN  IF /\ Len(text) = 10
           /\ \A i \in {1, 2, 3, 4, 6, 7, 9, 10} : IsDigit(text[i])
           /\ text[5] = 45 /\ text[8] = 45
           /\ m \in 1..12 /\ d \in 1..DaysInMonth(y, m)
        THEN Some(<<y, m, d>>)
        ELSE None

\* derived Serialize of SubCategory: a JSON object
SerializeSubCategory(subcategory) ==
    [name |-> subcategory.name,
     date_added |-> FormatIsoDate(subcategory.date_added)]

\* Serialize of Category writing no sub-category
SerializeCategory_without_subcategories(category) ==
    [name |-> category.name,
     subcategories |-> <<>>,
     date_added |-> FormatIsoDate(category.date_added)]

\* derived Serialize of Category: a JSON object, the set as an array
SerializeCategory(category) ==
    LET sorted == SortedSubCategories(category.subcategories) IN
    [name |-> category.name,
     subcategories |-> [i \in DOMAIN sorted |-> SerializeSubCategory(sorted[i])],
     date_added |-> FormatIsoDate(category.date_added)]

\* derived Serialize of ExpenseTracker: the JSON document; transactions is
\* skip_serializing
Serialize(self) ==
    LET sorted == SortedCategories(self.valid_categories) IN
    [valid_categories |-> [i \in DOMAIN sorted |-> SerializeCategory(sorted[i])]]

ErrFromReader == "Failed to read the categories from the config"

\* the dates of the JSON document are dates
DatesOfDocument(document) ==
    \A i \in DOMAIN document.valid_categories :
        LET category == document.valid_categories[i] IN
        /\ IsSome(ParseIsoDate(category.date_added))
        /\ \A j \in DOMAIN category.subcategories :
               IsSome(ParseIsoDate(category.subcategories[j].date_added))

\* derived Deserialize of SubCategory
DeserializeSubCategory(object) ==
    SubCategory(object.name, ParseIsoDate(object.date_added)[1])

\* derived Deserialize of Category: the array collected into a BTreeSet
DeserializeCategory(object) ==
    [name |-> object.name,
     date_added |-> ParseIsoDate(object.date_added)[1],
     subcategories |-> { DeserializeSubCategory(object.subcategories[j]) :
                           j \in DOMAIN object.subcategories }]

\* derived Deserialize of ExpenseTracker (serde_json::from_reader): the
\* tracker or the error; transactions is skip_deserializing and takes its
\* Default
Deserialize(document) ==
    IF ~DatesOfDocument(document)
    THEN Err(ErrFromReader)
    ELSE [ok |-> TRUE,
          value |-> ExpenseTracker(
              { DeserializeCategory(document.valid_categories[i]) :
                  i \in DOMAIN document.valid_categories },
              <<>>)]

\* ExpenseTracker::save_info_to_file: the tracker it leaves, the document of
\* the file and the Result
save_info_to_file(self) ==
    [self |-> self, file |-> Serialize(self), ret |-> Ok]

\* ExpenseTracker::load_info_from_file on the document of the file: the
\* tracker or the error
load_info_from_file(file) == Deserialize(file)

\* the loop of load_info_from_transactions over the cloned transactions: the
\* category of each is added, then its sub-category, and the unwrap of an
\* Err of add_subcategory panics, which ends the loop
RECURSIVE InfoFromTransactions(_, _, _)
InfoFromTransactions(self, cloned_transactions, today) ==
    IF cloned_transactions = <<>>
    THEN [self |-> self, panicked |-> FALSE]
    ELSE LET transaction == Head(cloned_transactions)
             with_category ==
                 add_category(self, transaction.category_name,
                              Some(transaction.date), today).self
         IN  IF ~IsSome(transaction.subcategory_name)
             THEN InfoFromTransactions(with_category,
                                       Tail(cloned_transactions), today)
             ELSE LET r == add_subcategory(with_category,
                                           transaction.category_name,
                                           transaction.subcategory_name[1],
                                           Some(transaction.date), today)
                  IN  IF r.ret.ok
                      THEN InfoFromTransactions(r.self,
                                                Tail(cloned_transactions), today)
                      ELSE [self |-> r.self, panicked |-> TRUE]

load_info_from_transactions(self, today) ==
    InfoFromTransactions(self, self.transactions, today)

----------------------------------------------------------------------------
(* Inputs of the operations *)

\* "Fo", "fo", "c"
CategoryNames == { <<70, 111>>, <<102, 111>>, <<99>> }

\* "G", "g", "t"
SubCategoryNames == { <<71>>, <<103>>, <<116>> }

\* Option<NaiveDate>: no date, or a date that is not the date of today
DateOptions == { None, Some(DefaultDate) }

\* the dates chrono::prelude::Local::now() reads
Clock == { <<1970, 1, 2>> }

\* the amounts 7.0 (1.75 * 2^2) and -5.0 (-1.25 * 2^2)
Seven == F32(0, 129, 6291456)

MinusFive == F32(1, 129, 2097152)

\* the transactions handed to add_transaction
TransactionInputs ==
    { \* 5.00 out under "fo"/"G", tagged "x"
      Transaction(<<1970, 1, 2>>, MinusFive, <<102, 111>>, Some(<<71>>),
                  Some(<<120>>), None),
      \* 7.00 in under "c", without sub-category
      Transaction(DefaultDate, Seven, <<99>>, None, None, None) }

\* "1970-01-01"
IsoText19700101 == <<49, 57, 55, 48, 45, 48, 49, 45, 48, 49>>

\* "1970-01-02"
IsoText19700102 == <<49, 57, 55, 48, 45, 48, 49, 45, 48, 50>>

\* "1970-02-31", not a date
IsoText19700231 == <<49, 57, 55, 48, 45, 48, 50, 45, 51, 49>>

\* the taxonomy files handed to load_info_from_file
ConfigFiles ==
    { \* {"valid_categories": []}
      [valid_categories |-> <<>>],
      \* the category "c" of 1970-01-01 with the sub-category "t" of 1970-01-02
      [valid_categories |->
          << [name |-> <<99>>,
              subcategories |-> << [name |-> <<116>>,
                                    date_added |-> IsoText19700102] >>,
              date_added |-> IsoText19700101] >>],
      \* the category "c" with a date_added that is not a date
      [valid_categories |->
          << [name |-> <<99>>, subcategories |-> <<>>,
              date_added |-> IsoText19700231] >>] }

\* the sequences of at most n elements of S
RECURSIVE SeqsUpTo(_, _)
SeqsUpTo(S, n) ==
    IF n = 0 THEN { <<>> }
    ELSE SeqsUpTo(S, n - 1)
         \cup { Append(q, x) : q \in { r \in SeqsUpTo(S, n - 1) : Len(r) = n - 1 },
                               x \in S }

\* the files: at most MaxRows rows
Files == SeqsUpTo(Rows, MaxRows)

----------------------------------------------------------------------------
(* The tracker as a state machine: one action per operation *)

self == ExpenseTracker(valid_categories, transactions)

\* ExpenseTracker::new
Init ==
    /\ valid_categories = {}
    /\ transactions = <<>>
    /\ last = [op |-> "new"]

AddCategory ==
    \E category_name \in CategoryNames, date_creation \in DateOptions,
       today \in Clock :
        LET r == add_category(self, category_name, date_creation, today) IN
        /\ valid_categories' = r.self.valid_categories
        /\ transactions' = r.self.transactions
        /\ last' = [op |-> "add_category", ret |-> r.ret]

\* a sub-category added by hand is dated today; load_transactions_from_file
\* passes the date of the row
AddSubcategory ==
    \E category_name \in CategoryNames, subcategory_name \in SubCategoryNames,
       today \in Clock :
        LET r == add_subcategory(self, category_name, subcategory_name,
                                 None, today) IN
        /\ valid_categories' = r.self.valid_categories
        /\ transactions' = r.self.transactions
        /\ last' = [op |-> "add_subcategory", ret |-> r.ret]

AddTransaction ==
    \E transaction \in TransactionInputs :
        LET r == add_transaction(self, transaction) IN
        /\ Len(r.self.transactions) <= MaxTransactions
        /\ valid_categories' = r.self.valid_categories
        /\ transactions' = r.self.transactions
        /\ last' = [op |-> "add_transaction", ret |-> r.ret]

LoadTransactionsFromFile ==
    \E records \in Files, generate_categories_and_sub \in BOOLEAN :
        /\ Len(transactions) + Len(records) <= MaxTransactions
        /\ LET r == load_transactions_from_file(self, records,
                                                generate_categories_and_sub) IN
            /\ valid_categories' = r.self.valid_categories
            /\ transactions' = r.self.transactions
            /\ last' = [op |-> "load_transactions_from_file",
                        generate_categories_and_sub |-> generate_categories_and_sub,
                        n_ignored_transactions |-> r.n_ignored_transactions,
                        ret |-> r.ret]

Next ==
    \/ AddCategory
    \/ AddSubcategory
    \/ AddTransaction
    \/ LoadTransactionsFromFile

Spec == Init /\ [][Next]_vars

WriteTransactionsToFile ==
    LET r == write_transactions_to_file(self) IN
    /\ valid_categories' = r.self.valid_categories
    /\ transactions' = r.self.transactions
    /\ last' = [op |-> "write_transactions_to_file", output |-> r.output,
                ret |-> r.ret]

SaveInfoToFile ==
    LET r == save_info_to_file(self) IN
    /\ valid_categories' = r.self.valid_categories
    /\ transactions' = r.self.transactions
    /\ last' = [op |-> "save_info_to_file", file |-> r.file, ret |-> r.ret]

\* the tracker becomes the one load_info_from_file returns; the file is one
\* of the taxonomy files, or the file save_info_to_file has just written
LoadInfoFromFile ==
    \E file \in ConfigFiles
                \cup (IF last.op = "save_info_to_file" THEN {last.file} ELSE {}) :
        LET r == load_info_from_file(file) IN
        /\ valid_categories' = IF r.ok THEN r.value.valid_categories
                               ELSE valid_categories
        /\ transactions' = IF r.ok THEN r.value.transactions ELSE transactions
        /\ last' = [op |-> "load_info_from_file",
                    ret |-> IF r.ok THEN Ok ELSE r]

\* the message of the panic of Result::unwrap
ErrUnwrap == "called Result::unwrap() on an Err value"

\* a panic of load_info_from_transactions is recorded as its outcome
LoadInfoFromTransactions ==
    \E today \in Clock :
        LET r == load_info_from_transactions(self, today) IN
        /\ valid_categories' = r.self.valid_categories
        /\ transactions' = r.self.transactions
        /\ last' = [op |-> "load_info_from_transactions",
                    ret |-> IF r.panicked THEN Err(ErrUnwrap) ELSE Ok]

\* the program that loads files of transactions, writes the transactions it
\* retains, saves and loads its taxonomy, and rebuilds the taxonomy from the
\* transactions
NextBatch ==
    \/ LoadTransactionsFromFile
    \/ WriteTransactionsToFile
    \/ SaveInfoToFile
    \/ LoadInfoFromFile
    \/ LoadInfoFromTransactions

SpecBatch == Init /\ [][NextBatch]_vars

----------------------------------------------------------------------------
(* Claims *)

\* the transactions the claims on validation range over: a category and a
\* sub-category in every casing of the model
TransactionCandidates ==
    { Transaction(DefaultDate, Seven, category_name, subcategory_name, None, None) :
        category_name \in CategoryNames,
        subcategory_name \in {None} \cup { Some(n) : n \in SubCategoryNames } }

\* the transaction names the category, ignoring case
NamesCategory(transaction, category) ==
    to_lowercase(transaction.category_name) = to_lowercase(category.name)

\* the sub-category name equals, ignoring case, one of the category's
NamesSubcategoryOf(subcategory_name, category) ==
    \E subcategory \in category.subcategories :
        to_lowercase(subcategory.name) = to_lowercase(subcategory_name)

\* the store holds a category of that name, ignoring case
HasCategory(category_name) ==
    \E category \in valid_categories :
        to_lowercase(category.name) = to_lowercase(category_name)

\* the transaction as the row parser hands it to resolve_references
ParsedOf(transaction) ==
    TransactionParsed(transaction.date, transaction.amount,
                      transaction.category_name, transaction.subcategory_name,
                      transaction.tag, transaction.note)

\* a resolution and a validation agree: both accept, or both reject with the
\* same reason
SameVerdict(resolved, valid) ==
    /\ resolved.ok = valid.ok
    /\ ~valid.ok => resolved.err = valid.err

\* C1: a transaction that names a category without sub-categories is accepted
\* when it has no sub-category, and rejected because of its sub-category when
\* it has one, by is_transaction_valid, add_transaction and resolve_references.
C1_CategoryWithoutSubcategories ==
    \A category \in valid_categories :
        category.subcategories = {} =>
            \A transaction \in TransactionCandidates :
                NamesCategory(transaction, category) =>
                    LET expected ==
                            IF IsSome(transaction.subcategory_name)
                            THEN Err(ErrSubcategoryNotInCategory)
                            ELSE Ok
                    IN  /\ is_transaction_valid(self, transaction) = expected
                        /\ add_transaction(self, transaction).ret = expected
                        /\ SameVerdict(resolve_references(ParsedOf(transaction),
                                                          Some(category)),
                                       expected)

\* C1 witness: add_transaction has just rejected a transaction for its
\* sub-category in a store whose categories have no sub-category.
C1_Witness ==
    /\ last.op = "add_transaction"
    /\ last.ret = Err(ErrSubcategoryNotInCategory)
    /\ valid_categories # {}
    /\ \A category \in valid_categories : category.subcategories = {}

\* C2, as amended: a transaction that names a category with sub-categories is
\* accepted iff it has a sub-category that equals, ignoring case, one of the
\* category's; without a sub-category it is rejected for the missing
\* sub-category, with another one for the sub-category not in the category.
C2_CategoryWithSubcategories ==
    \A category \in valid_categories :
        category.subcategories # {} =>
            \A transaction \in TransactionCandidates :
                NamesCategory(transaction, category) =>
                    LET expected ==
                            IF ~IsSome(transaction.subcategory_name)
                            THEN Err(ErrNoSubcategory)
                            ELSE IF NamesSubcategoryOf(
                                        transaction.subcategory_name[1], category)
                            THEN Ok
                            ELSE Err(ErrSubcategoryNotInCategory)
                    IN  /\ is_transaction_valid(self, transaction) = expected
                        /\ add_transaction(self, transaction).ret = expected
                        /\ SameVerdict(resolve_references(ParsedOf(transaction),
                                                          Some(category)),
                                       expected)

\* C2 witness: a transaction written "Fo"/"G" is retained under the category
\* "fo" that holds "g", and add_transaction has just rejected a transaction
\* for its missing sub-category.
C2_Witness ==
    /\ last.op = "add_transaction"
    /\ last.ret = Err(ErrNoSubcategory)
    /\ \E i \in DOMAIN transactions :
        /\ transactions[i].category_name = <<102, 111>>
        /\ transactions[i].subcategory_name = Some(<<71>>)
    /\ \E category \in valid_categories :
        /\ category.name = <<102, 111>>
        /\ \E subcategory \in category.subcategories : subcategory.name = <<103>>

\* C2 as stated: under a category with sub-categories, a transaction without
\* sub-category and a transaction with a sub-category not in the category are
\* rejected with one and the same reason.
C2_OneReasonForMissingAndInvalid ==
    \A category \in valid_categories :
        category.subcategories # {} =>
            \A missing, invalid \in TransactionCandidates :
                ( /\ NamesCategory(missing, category)
                  /\ NamesCategory(invalid, category)
                  /\ ~IsSome(missing.subcategory_name)
                  /\ IsSome(invalid.subcategory_name)
                  /\ ~NamesSubcategoryOf(invalid.subcategory_name[1], category) )
                => /\ ~is_transaction_valid(self, missing).ok
                   /\ ~is_transaction_valid(self, invalid).ok
                   /\ is_transaction_valid(self, missing).err
                          = is_transaction_valid(self, invalid).err

\* C3: add_transaction on a transaction whose category the store does not
\* hold returns the invalid-category rejection whatever the sub-category, and
\* leaves the transaction list and the categories as they were.
C3_InvalidCategory ==
    \A transaction \in TransactionCandidates :
        ~HasCategory(transaction.category_name) =>
            add_transaction(self, transaction)
                = [self |-> self, ret |-> Err(ErrInvalidCategory)]

\* C3 witness: a tracker with categories and a retained transaction, in which
\* add_transaction has just rejected a transaction for its category.
C3_Witness ==
    /\ last.op = "add_transaction"
    /\ last.ret = Err(ErrInvalidCategory)
    /\ valid_categories # {}
    /\ transactions # <<>>

\* the categories of a tracker that bear the name, ignoring case
CategoriesNamed(tracker, category_name) ==
    { category \in tracker.valid_categories :
        to_lowercase(category.name) = to_lowercase(category_name) }

\* C4: for names n and m equal when lowercased, add_category(n) followed by
\* add_category(m), directly or after a sub-category was added in between,
\* leaves one category of that name: the second call returns false and
\* changes nothing.
C4_AddCategoryTwice ==
    \A n \in CategoryNames, first_date \in DateOptions, today \in Clock :
        \A first \in { add_category(self, n, first_date, today).self } :
            /\ Cardinality(CategoriesNamed(first, n)) = 1
            /\ \A m \in CategoryNames, second_date \in DateOptions :
                to_lowercase(n) = to_lowercase(m) =>
                    add_category(first, m, second_date, today)
                        = [self |-> first, ret |-> FALSE]
            /\ \A subcategory_name \in SubCategoryNames :
                \A between \in { add_subcategory(first, n, subcategory_name,
                                                 first_date, today).self } :
                    \A m \in CategoryNames :
                        ( /\ between # first
                          /\ to_lowercase(n) = to_lowercase(m) )
                        => add_category(between, m, first_date, today)
                               = [self |-> between, ret |-> FALSE]

\* C4 witness: add_category has just returned false in a store whose
\* categories hold sub-categories.
C4_Witness ==
    /\ last.op = "add_category"
    /\ last.ret = FALSE
    /\ valid_categories # {}
    /\ \A category \in valid_categories : category.subcategories # {}

\* C5: no two categories of the store have the same lowercased name.
C5_UniqueCategoryNames ==
    \A c1, c2 \in valid_categories :
        to_lowercase(c1.name) = to_lowercase(c2.name) => c1 = c2

\* C5 witness: a store of two categories with a retained transaction, after
\* a load.
C5_Witness ==
    /\ last.op = "load_transactions_from_file"
    /\ Cardinality(valid_categories) = 2
    /\ transactions # <<>>

\* C6: add_category(name, date) on a store without a category of that
\* lowercased name returns true and adds exactly the category of the
\* lowercased name, the given date (today's without one) and no sub-category.
C6_AddNewCategory ==
    \A category_name \in CategoryNames, date_creation \in DateOptions,
       today \in Clock :
        ~HasCategory(category_name) =>
            LET r == add_category(self, category_name, date_creation, today)
                added == [name |-> to_lowercase(category_name),
                          date_added |-> IF date_creation = None THEN today
                                         ELSE date_creation[1],
                          subcategories |-> {}]
            IN  /\ r.ret = TRUE
                /\ r.self.valid_categories = valid_categories \cup {added}
                /\ Cardinality(r.self.valid_categories)
                       = Cardinality(valid_categories) + 1
                /\ r.self.transactions = transactions

\* C6 witness: add_category has just returned true and the store holds the
\* new category, without sub-category, next to a category with sub-categories.
C6_Witness ==
    /\ last.op = "add_category"
    /\ last.ret = TRUE
    /\ \E category \in valid_categories : category.subcategories = {}
    /\ \E category \in valid_categories : category.subcategories # {}

\* C7: add_subcategory under a category the store does not hold returns the
\* unknown-category error and leaves the whole tracker as it was.
C7_UnknownCategory ==
    \A category_name \in CategoryNames, subcategory_name \in SubCategoryNames,
       date_creation \in DateOptions, today \in Clock :
        ~HasCategory(category_name) =>
            add_subcategory(self, category_name, subcategory_name,
                            date_creation, today)
                = [self |-> self, ret |-> Err(ErrUnknownCategory)]

\* C7 witness: add_subcategory has just failed for its category in a tracker
\* that holds a category and a transaction.
C7_Witness ==
    /\ last.op = "add_subcategory"
    /\ last.ret = Err(ErrUnknownCategory)
    /\ valid_categories # {}
    /\ transactions # <<>>

\* C8: add_subcategory of a name the category already holds, ignoring case,
\* returns the duplicate error and leaves the whole tracker as it was.
C8_DuplicateSubcategory ==
    \A category \in valid_categories :
        \A category_name \in CategoryNames, subcategory_name \in SubCategoryNames,
           date_creation \in DateOptions, today \in Clock :
            ( /\ to_lowercase(category_name) = to_lowercase(category.name)
              /\ NamesSubcategoryOf(subcategory_name, category) )
            => add_subcategory(self, category_name, subcategory_name,
                               date_creation, today)
                   = [self |-> self, ret |-> Err(ErrDuplicateSubcategory)]

\* C8 witness: add_subcategory has just failed for a duplicate, in a tracker
\* whose categories all hold a sub-category and that retains a transaction.
C8_Witness ==
    /\ last.op = "add_subcategory"
    /\ last.ret = Err(ErrDuplicateSubcategory)
    /\ transactions # <<>>
    /\ \A category \in valid_categories : category.subcategories # {}

\* C9: add_subcategory of a name the existing category does not hold
\* succeeds, also when another category holds that name; the category keeps
\* its name and date and gains the lowercased sub-category, every other
\* category and the number of categories are unchanged.
C9_AddNewSubcategory ==
    \A category \in valid_categories :
        \A category_name \in CategoryNames, subcategory_name \in SubCategoryNames,
           date_creation \in DateOptions, today \in Clock :
            ( /\ to_lowercase(category_name) = to_lowercase(category.name)
              /\ ~NamesSubcategoryOf(subcategory_name, category) )
            => LET r == add_subcategory(self, category_name, subcategory_name,
                                        date_creation, today)
                   added == [name |-> to_lowercase(subcategory_name),
                             date_added |-> IF date_creation = None THEN today
                                            ELSE date_creation[1]]
                   grown == [name |-> category.name,
                             date_added |-> category.date_added,
                             subcategories |-> category.subcategories \cup {added}]
               IN  /\ r.ret = Ok
                   /\ grown \in r.self.valid_categories
                   /\ \A other \in valid_categories :
                        other # category => other \in r.self.valid_categories
                   /\ Cardinality(r.self.valid_categories)
                          = Cardinality(valid_categories)
                   /\ r.self.transactions = transactions

\* C9 witness: add_subcategory has just succeeded, and two categories hold a
\* sub-category of one name, one of them next to another sub-category.
C9_Witness ==
    /\ last.op = "add_subcategory"
    /\ last.ret = Ok
    /\ \E c1, c2 \in valid_categories :
        /\ c1 # c2
        /\ Cardinality(c1.subcategories) = 2
        /\ \E s1 \in c1.subcategories, s2 \in c2.subcategories :
            s1.name = s2.name

\* C10: no category holds two sub-categories of the same lowercased name.
C10_UniqueSubcategoryNames ==
    \A category \in valid_categories :
        \A s1, s2 \in category.subcategories :
            to_lowercase(s1.name) = to_lowercase(s2.name) => s1 = s2

\* C10 witness: after a load, a category holds two sub-categories.
C10_Witness ==
    /\ last.op = "load_transactions_from_file"
    /\ \E category \in valid_categories :
        Cardinality(category.subcategories) = 2

\* C11: each retained transaction names a category of the store, and its
\* sub-category, if it has one, is a sub-category of that category, ignoring
\* case.
C11_RetainedTransactionsAreValid ==
    \A i \in DOMAIN transactions :
        \E category \in valid_categories :
            /\ NamesCategory(transactions[i], category)
            /\ IsSome(transactions[i].subcategory_name)
                   => NamesSubcategoryOf(transactions[i].subcategory_name[1],
                                         category)

\* C11 witness: two transactions are retained, one with a sub-category and one
\* without, the second one just added by add_transaction.
C11_Witness ==
    /\ last.op = "add_transaction"
    /\ last.ret = Ok
    /\ Len(transactions) = 2
    /\ \E i, j \in DOMAIN transactions :
        /\ IsSome(transactions[i].subcategory_name)
        /\ ~IsSome(transactions[j].subcategory_name)

\* every row of the file is converted by try_from
AllRowsParse(records) ==
    \A i \in DOMAIN records : TryFromRows[records[i]].ok

\* the transactions the rows of the file are converted to, in the order of
\* the file
ParsedRows(records) ==
    [i \in DOMAIN records |-> TryFromRows[records[i]].value]

\* the elements of the sequence that the tracker finds valid, in order
RECURSIVE ValidOnes(_, _)
ValidOnes(tracker, candidates) ==
    IF candidates = <<>> THEN <<>>
    ELSE IF is_transaction_valid(tracker, Head(candidates)).ok
    THEN <<Head(candidates)>> \o ValidOnes(tracker, Tail(candidates))
    ELSE ValidOnes(tracker, Tail(candidates))

\* what the sequence holds after its n first elements
After(seq, n) == SubSeq(seq, n + 1, Len(seq))

\* C12: a load of rows that all parse returns success whatever the rows that
\* validation rejects; the list it leaves is the former list followed by rows
\* of the file, and the rows it retains and the rows it counts as ignored are
\* all the rows of the file.  Without generation of the taxonomy the rows it
\* retains are exactly the valid rows, in order, those after a rejected row
\* included.
C12_RejectedRowsDoNotStopTheBatch ==
    \A records \in Files, generate_categories_and_sub \in BOOLEAN :
        AllRowsParse(records) =>
            \A r \in { load_transactions_from_file(self, records,
                                                    generate_categories_and_sub) } :
                /\ r.ret = Ok
                /\ Len(r.self.transactions) >= Len(transactions)
                /\ SubSeq(r.self.transactions, 1, Len(transactions)) = transactions
                /\ (Len(r.self.transactions) - Len(transactions))
                       + r.n_ignored_transactions = Len(records)
                /\ ~generate_categories_and_sub =>
                       /\ After(r.self.transactions, Len(transactions))
                              = ValidOnes(self, ParsedRows(records))
                       /\ r.self.valid_categories = valid_categories

\* C12 witness: a load has just ignored a row, and in the tracker it left a
\* file of two rows has its first row rejected and its second row retained.
C12_Witness ==
    /\ last.op = "load_transactions_from_file"
    /\ last.ret = Ok
    /\ last.n_ignored_transactions >= 1
    /\ \E records \in Files :
        /\ Len(records) = 2
        /\ AllRowsParse(records)
        /\ ~is_transaction_valid(self, ParsedRows(records)[1]).ok
        /\ load_transactions_from_file(self, records, FALSE).self.transactions
               = Append(transactions, ParsedRows(records)[2])

\* the transactions a row of the model is converted to
ParsedTransactions ==
    { TryFromRows[transaction_csv].value :
        transaction_csv \in { row \in Rows : TryFromRows[row].ok } }

\* one step of the tracker keeps the list it had as the beginning of the list
\* it has, and what it adds is what the operation was given
AppendsOnly ==
    /\ Len(transactions') >= Len(transactions)
    /\ SubSeq(transactions', 1, Len(transactions)) = transactions
    /\ last'.op \in {"add_category", "add_subcategory"}
           => transactions' = transactions
    /\ last'.op = "add_transaction"
           => IF last'.ret = Ok
              THEN \E transaction \in TransactionInputs :
                      /\ is_transaction_valid(self, transaction) = Ok
                      /\ transactions' = Append(transactions, transaction)
              ELSE transactions' = transactions
    /\ last'.op = "load_transactions_from_file"
           => \A i \in DOMAIN transactions' :
                  i > Len(transactions) => transactions'[i] \in ParsedTransactions

\* the rows load_transactions_from_file processes, as transactions: the
\* rows of the file before the first row that is not converted
RECURSIVE ConvertedRows(_)
ConvertedRows(records) ==
    IF records = <<>> \/ ~TryFromRows[Head(records)].ok THEN <<>>
    ELSE <<TryFromRows[Head(records)].value>> \o ConvertedRows(Tail(records))

\* the tracker with the category and the sub-category of each of the
\* transactions, dated as the transaction; a refused sub-category is passed
\* over
RECURSIVE GeneratedTaxonomy(_, _)
GeneratedTaxonomy(tracker, candidates) ==
    IF candidates = <<>> THEN tracker
    ELSE LET transaction == Head(candidates)
             with_category ==
                 add_category(tracker, transaction.category_name,
                              Some(transaction.date), transaction.date).self
         IN  GeneratedTaxonomy(
                 IF IsSome(transaction.subcategory_name)
                 THEN add_subcategory(with_category, transaction.category_name,
                                      transaction.subcategory_name[1],
                                      Some(transaction.date),
                                      transaction.date).self
                 ELSE with_category,
                 Tail(candidates))

\* the i-th of the transactions submitted is accepted: it is valid under the
\* taxonomy it meets, which with the generation is the one generated from
\* the transactions up to it
AcceptedAt(tracker, candidates, generate_categories_and_sub, i) ==
    is_transaction_valid(
        IF generate_categories_and_sub
        THEN GeneratedTaxonomy(tracker, SubSeq(candidates, 1, i))
        ELSE tracker,
        candidates[i]).ok

\* the sub-sequence of the accepted ones among the transactions from the
\* i-th on, in the order they are submitted
RECURSIVE AcceptedFrom(_, _, _, _)
AcceptedFrom(tracker, candidates, generate_categories_and_sub, i) ==
    IF i > Len(candidates) THEN <<>>
    ELSE (IF AcceptedAt(tracker, candidates, generate_categories_and_sub, i)
          THEN <<candidates[i]>> ELSE <<>>)
             \o AcceptedFrom(tracker, candidates, generate_categories_and_sub,
                             i + 1)

\* every load the tracker can take as its next step, with or without the
\* generation of the taxonomy, leaves the former list followed by exactly
\* the accepted rows among the rows it processes, each once and unchanged,
\* in the order of the file, and counts the other rows it processes as
\* ignored
LoadAppendsAcceptedInOrder ==
    \A records \in Files, generate_categories_and_sub \in BOOLEAN :
        Len(transactions) + Len(records) <= MaxTransactions =>
            \A r \in { load_transactions_from_file(self, records,
                                                    generate_categories_and_sub) },
               converted \in { ConvertedRows(records) } :
                \A accepted \in { AcceptedFrom(self, converted,
                                               generate_categories_and_sub, 1) } :
                    /\ r.self.transactions = transactions \o accepted
                    /\ r.n_ignored_transactions = Len(converted) - Len(accepted)

\* C13: accepted transactions are appended unchanged at the end of the list,
\* by add_transaction and by a batch load, so that the list is the
\* sub-sequence of the accepted transactions in the order they were
\* submitted; no operation reorders, alters or removes an earlier entry.
C13_AcceptedTransactionsInOrder ==
    [][AppendsOnly]_vars /\ []LoadAppendsAcceptedInOrder

\* C13 witness: a load has just appended a row of its file behind the
\* transaction under "c" that add_transaction had appended, which is not
\* their order as values.
C13_Witness ==
    /\ last.op = "load_transactions_from_file"
    /\ last.ret = Ok
    /\ Len(transactions) = 2
    /\ transactions[1] \in TransactionInputs \ ParsedTransactions
    /\ transactions[1].category_name = <<99>>
    /\ transactions[2] \in ParsedTransactions

\* the rows of the file that carry a sub-category, as transactions, in order
RECURSIVE WithSubcategory(_)
WithSubcategory(candidates) ==
    IF candidates = <<>> THEN <<>>
    ELSE IF IsSome(Head(candidates).subcategory_name)
    THEN <<Head(candidates)>> \o WithSubcategory(Tail(candidates))
    ELSE WithSubcategory(Tail(candidates))

\* the elements of the first sequence are elements of the second one, in the
\* same order
RECURSIVE IsSubsequence(_, _)
IsSubsequence(sub, seq) ==
    IF sub = <<>> THEN TRUE
    ELSE IF seq = <<>> THEN FALSE
    ELSE IF Head(sub) = Head(seq) THEN IsSubsequence(Tail(sub), Tail(seq))
    ELSE IsSubsequence(sub, Tail(seq))

\* C14, as amended: a load that generates the taxonomy leaves in the store the
\* category and the sub-category of every row that parses, and retains every
\* such row that carries a sub-category; a row without sub-category, loaded
\* alone, is retained iff its category holds no sub-category.
C14_GeneratedTaxonomyAcceptsRowsWithSubcategory ==
    \A records \in Files :
        AllRowsParse(records) =>
            \A r \in { load_transactions_from_file(self, records, TRUE) } :
                /\ \A i \in DOMAIN records :
                    \E category \in r.self.valid_categories :
                        /\ NamesCategory(ParsedRows(records)[i], category)
                        /\ IsSome(ParsedRows(records)[i].subcategory_name)
                               => NamesSubcategoryOf(
                                      ParsedRows(records)[i].subcategory_name[1],
                                      category)
                /\ IsSubsequence(WithSubcategory(ParsedRows(records)),
                                 After(r.self.transactions, Len(transactions)))
                /\ ( /\ Len(records) = 1
                     /\ ~IsSome(ParsedRows(records)[1].subcategory_name) )
                   => ( r.n_ignored_transactions = 0
                        <=> \A category \in valid_categories :
                                NamesCategory(ParsedRows(records)[1], category)
                                    => category.subcategories = {} )

\* C14 witness: a load that generates the taxonomy has just ignored a row, and
\* retained a row with a sub-category.
C14_Witness ==
    /\ last.op = "load_transactions_from_file"
    /\ last.generate_categories_and_sub
    /\ last.ret = Ok
    /\ last.n_ignored_transactions = 1
    /\ \E i \in DOMAIN transactions : IsSome(transactions[i].tag)

\* C14 as stated: a load that generates the taxonomy accepts every row that
\* parses.
C14_EveryParsedRowIsAccepted ==
    \A records \in Files :
        AllRowsParse(records) =>
            load_transactions_from_file(self, records, TRUE)
                .n_ignored_transactions = 0

\* the files of which exactly one row has a date that does not parse, every
\* other row being converted by try_from
FilesWithOneBadDate ==
    { records \in Files :
        /\ Cardinality({ i \in DOMAIN records : ~TryFromRows[records[i]].ok }) = 1
        /\ \A i \in DOMAIN records :
            ~TryFromRows[records[i]].ok => ~IsSome(ParseDate(records[i].date)) }

\* the whole batch fails: the load returns the error
WholeBatchFails(r) == ~r.ret.ok

\* the other rows are processed and the bad row is counted as rejected
BadRowCountedAsRejected(r, records) ==
    /\ r.ret.ok
    /\ r.n_ignored_transactions >= 1
    /\ (Len(r.self.transactions) - Len(transactions))
           + r.n_ignored_transactions = Len(records)

\* C15: of a file of which one row has a date that does not parse, either
\* every load fails as a whole, or every load processes the other rows and
\* counts the bad row as rejected.
C15_OnePolicyForAnUnparsableDate ==
    \/ \A records \in FilesWithOneBadDate, generate_categories_and_sub \in BOOLEAN :
           WholeBatchFails(load_transactions_from_file(
                               self, records, generate_categories_and_sub))
    \/ \A records \in FilesWithOneBadDate, generate_categories_and_sub \in BOOLEAN :
           BadRowCountedAsRejected(
               load_transactions_from_file(self, records,
                                           generate_categories_and_sub),
               records)

\* C15 witness: a load has just failed on a row it could not convert, after
\* it had processed and ignored the row before it.
C15_Witness ==
    /\ last.op = "load_transactions_from_file"
    /\ last.ret = Err(ErrConvert)
    /\ last.n_ignored_transactions = 1

\* an amount as format!("{:.2}") writes it: digits without a leading zero, a
\* point and two decimals, which the f32 of the text is written as again
TwoDecimalAmountText(text) ==
    LET n == DigitPrefixLen(text, Len(text)) IN
    /\ n >= 1
    /\ (n = 1 \/ text[1] # 48)
    /\ Len(text) = n + 3
    /\ text[n + 1] = 46
    /\ IsDigit(text[n + 2])
    /\ IsDigit(text[n + 3])
    /\ FormatAmount(parse_amount(text)[1]) = text

\* a row in the form the writer gives its rows: a date of two, two and four
\* digits, and one amount with two decimals, in the column amount_in, or in
\* the column amount_out if it is not zero
InOutputConvention(transaction_csv) ==
    /\ Len(transaction_csv.date) = 10
    /\ IsSome(ParseDate(transaction_csv.date))
    /\ \/ /\ transaction_csv.amount_out = <<>>
          /\ TwoDecimalAmountText(transaction_csv.amount_in)
       \/ /\ transaction_csv.amount_in = <<>>
          /\ TwoDecimalAmountText(transaction_csv.amount_out)
          /\ ~IsZero(parse_amount(transaction_csv.amount_out)[1])

\* the row alone is parsed and accepted under the taxonomy generated from it
SelfConsistent(transaction_csv) ==
    LET alone == load_transactions_from_file(ExpenseTracker({}, <<>>),
                                             <<transaction_csv>>, TRUE)
    IN  alone.ret.ok /\ alone.n_ignored_transactions = 0

\* C16 (amended): loading a batch into an empty tracker with the generation
\* of the taxonomy and writing the retained transactions gives the rows of
\* the batch, in their order, for every batch of which the load rejects no
\* row and of which every row is in the form the writer gives its rows.
C16_RowsInOutputConventionRoundTrip ==
    (valid_categories = {} /\ transactions = <<>>) =>
        \A records \in Files \cup { <<row>> : row \in EdgeRows } :
            LET loaded == load_transactions_from_file(self, records, TRUE) IN
            ( /\ loaded.ret.ok
              /\ loaded.n_ignored_transactions = 0
              /\ \A i \in DOMAIN records : InOutputConvention(records[i]) )
            => write_transactions_to_file(loaded.self).output = records

\* two different rows, loaded and written in their order
C16_Witness ==
    /\ last.op = "write_transactions_to_file"
    /\ Len(last.output) = 2
    /\ last.output[1] # last.output[2]
    /\ last.output \in Files
    /\ \A category \in valid_categories : category.subcategories # {}

\* C16 as it is stated: the rows come back for every batch of which each row,
\* alone, is accepted under the taxonomy generated from it.
C16_SelfConsistentRowsRoundTrip ==
    (valid_categories = {} /\ transactions = <<>>) =>
        \A records \in Files :
            (\A i \in DOMAIN records : SelfConsistent(records[i]))
            => LET loaded == load_transactions_from_file(self, records, TRUE)
               IN  write_transactions_to_file(loaded.self).output = records

\* C17: the load of a batch with the generation of the taxonomy, made a
\* second time with the same batch, leaves the categories, their
\* sub-categories and all their dates as the first load left them.
C17_SecondLoadKeepsTaxonomy ==
    \A records \in Files :
        \A first \in { load_transactions_from_file(self, records, TRUE) } :
            LET second == load_transactions_from_file(first.self, records, TRUE)
            IN  second.self.valid_categories = first.self.valid_categories

\* a load with the generation of the taxonomy after which the tracker retains
\* twice the same row with a sub-category
C17_Witness ==
    /\ last.op = "load_transactions_from_file"
    /\ last.generate_categories_and_sub
    /\ last.ret.ok
    /\ Len(transactions) = 2
    /\ transactions[1] = transactions[2]
    /\ IsSome(transactions[1].subcategory_name)
    /\ valid_categories # {}

\* C18: the file save_info_to_file writes, loaded back, gives a tracker with
\* the categories of the saving tracker, their dates and their sub-categories
\* with their dates, and without transactions, whatever transactions the
\* saving tracker retains; save_info_to_file leaves its tracker as it was.
C18_SavedTaxonomyLoadsBack ==
    LET saved == save_info_to_file(self)
        loaded == load_info_from_file(saved.file)
    IN  /\ saved.ret.ok
        /\ saved.self = self
        /\ loaded.ok
        /\ loaded.value.valid_categories = valid_categories
        /\ loaded.value.transactions = <<>>

\* a tracker that retains transactions has saved two categories, one of them
\* with sub-categories
C18_Witness ==
    /\ last.op = "save_info_to_file"
    /\ last.ret.ok
    /\ transactions # <<>>
    /\ Len(last.file.valid_categories) = 2
    /\ \E category \in valid_categories : category.subcategories # {}

\* every category of the store is in the store after the step, under its name
\* and with its date, and holds there the sub-categories it held, unaltered
TaxonomyGrows ==
    \A category \in valid_categories :
        \E kept \in valid_categories' :
            /\ kept.name = category.name
            /\ kept.date_added = category.date_added
            /\ category.subcategories \subseteq kept.subcategories

\* C19: no operation on the tracker removes a category or alters its name or
\* its date, and none removes or alters a sub-category of a category: a
\* category changes only by gaining sub-categories.
C19_TaxonomyOnlyGrows == [][TaxonomyGrows]_vars

\* a category that held a sub-category has gained another one
C19_Witness ==
    /\ last.op = "add_subcategory"
    /\ last.ret.ok
    /\ \E category \in valid_categories :
           Cardinality(category.subcategories) >= 2
    /\ Cardinality(valid_categories) >= 2

\* the tracker after the add_category of the row, in the load that generates
\* the taxonomy
WithCategoryOf(transaction) ==
    add_category(self, transaction.category_name, Some(transaction.date),
                 transaction.date).self

\* the add_subcategory of the row, in the load that generates the taxonomy
SubcategoryOf(transaction) ==
    add_subcategory(WithCategoryOf(transaction), transaction.category_name,
                    transaction.subcategory_name[1], Some(transaction.date),
                    transaction.date)

\* the rows that parse and bear a sub-category
RowsWithSubcategory ==
    { transaction_csv \in Rows :
        /\ TryFromRows[transaction_csv].ok
        /\ IsSome(TryFromRows[transaction_csv].value.subcategory_name) }

\* C20 (amended): add_subcategory returns its errors to its caller and leaves
\* the store as it was; in the load that generates the taxonomy the error can
\* only be the duplicate one, and the load does not return it: it retains
\* the row and returns success.
C20_LoadGoesOnAfterRefusedSubcategory ==
    /\ \A category_name \in CategoryNames, subcategory_name \in SubCategoryNames,
          today \in Clock :
           LET r == add_subcategory(self, category_name, subcategory_name,
                                    None, today) IN
           ~r.ret.ok =>
               /\ r.self = self
               /\ r.ret \in {Err(ErrUnknownCategory), Err(ErrDuplicateSubcategory)}
    /\ \A transaction_csv \in RowsWithSubcategory :
           LET transaction == TryFromRows[transaction_csv].value
               r == load_transactions_from_file(self, <<transaction_csv>>, TRUE)
           IN  ~SubcategoryOf(transaction).ret.ok =>
                   /\ SubcategoryOf(transaction).ret = Err(ErrDuplicateSubcategory)
                   /\ r.ret = Ok
                   /\ r.n_ignored_transactions = 0
                   /\ r.self.valid_categories =
                          WithCategoryOf(transaction).valid_categories
                   /\ r.self.transactions = Append(transactions, transaction)

\* a load that generates the taxonomy has retained two rows of one
\* sub-category: add_subcategory has refused the sub-category of the second
C20_Witness ==
    /\ last.op = "load_transactions_from_file"
    /\ last.generate_categories_and_sub
    /\ last.ret = Ok
    /\ last.n_ignored_transactions = 0
    /\ Len(transactions) = 2
    /\ \E category \in valid_categories :
           /\ Cardinality(category.subcategories) = 1
           /\ \A i \in 1..2 :
                  /\ NamesCategory(transactions[i], category)
                  /\ IsSome(transactions[i].subcategory_name)
                  /\ NamesSubcategoryOf(transactions[i].subcategory_name[1],
                                        category)

\* C20 as it is stated: the load that generates the taxonomy returns the
\* error add_subcategory returns for a row.
C20_LoadReturnsSubcategoryErrors ==
    \A transaction_csv \in RowsWithSubcategory :
        LET transaction == TryFromRows[transaction_csv].value
            r == load_transactions_from_file(self, <<transaction_csv>>, TRUE)
        IN  ~SubcategoryOf(transaction).ret.ok =>
                r.ret = SubcategoryOf(transaction).ret

\* the StringRecord of a row: its seven fields
StringRecordOf(transaction_csv) ==
    << transaction_csv.date, transaction_csv.amount_out,
       transaction_csv.amount_in, transaction_csv.category,
       transaction_csv.subcategory, transaction_csv.tag, transaction_csv.note >>

\* the transaction without its sub-category
WithoutSubcategory(transaction) ==
    [transaction EXCEPT !.subcategory_name = None]

\* C21: each of the two row parsers gives an empty sub-category, tag or note
\* field as an absent value, and the transaction of a row with an empty
\* sub-category field is validated as the one without sub-category is.
C21_EmptyFieldsAreAbsent ==
    \A transaction_csv \in { row \in Rows : TryFromRows[row].ok } :
        LET parsed == TryFromRows[transaction_csv].value
            from_row == from_csv_row(StringRecordOf(transaction_csv))
        IN  /\ from_row.ok
            /\ transaction_csv.subcategory = <<>> =>
                   /\ parsed.subcategory_name = None
                   /\ from_row.value.subcategory_name = None
                   /\ is_transaction_valid(self, from_row.value)
                          = is_transaction_valid(
                                self, WithoutSubcategory(from_row.value))
            /\ transaction_csv.tag = <<>> =>
                   parsed.tag = None /\ from_row.value.tag = None
            /\ transaction_csv.note = <<>> =>
                   parsed.note = None /\ from_row.value.note = None

\* the row written for the transaction has one amount, in the column of the
\* sign of the amount
OneAmountColumn(transaction) ==
    LET record == WriteRecord(transaction) IN
    /\ (record.amount_out = <<>>) # (record.amount_in = <<>>)
    /\ LessThanZero(transaction.amount) => record.amount_in = <<>>
    /\ ~LessThanZero(transaction.amount) => record.amount_out = <<>>

\* C22: for every transaction a load retains, write_transactions_to_file
\* writes one amount column and leaves the other empty: amount_out for a
\* negative amount, amount_in for the others.
C22_OneAmountColumnPerRow ==
    \A transaction_csv \in Rows \cup EdgeRows :
        LET loaded == load_transactions_from_file(self, <<transaction_csv>>, TRUE)
        IN  \A i \in DOMAIN loaded.self.transactions :
                OneAmountColumn(loaded.self.transactions[i])

\* C23: parse_amount returns 0.0, and no error, for every amount text that
\* is empty or holds white space only, so that a load of a row with such an
\* amount does not fail.
C23_BlankAmountIsZero ==
    \A amount \in BlankAmounts :
        /\ parse_amount(amount) = Some(Zero(0))
        /\ load_transactions_from_file(self, <<RowWithAmountIn(amount)>>, TRUE).ret.ok

\* C24: load_info_from_transactions does not panic in any state of the
\* tracker: no add_subcategory of its loop returns an error, also when two
\* retained transactions name the same sub-category or the sub-category is
\* in the store already.
C24_LoadInfoFromTransactionsReturns ==
    \A today \in Clock : ~load_info_from_transactions(self, today).panicked

\* C25: every retained transaction is valid against the store of the state:
\* is_transaction_valid returns Ok for it.
C25_RetainedTransactionsStayValid ==
    \A i \in DOMAIN transactions :
        is_transaction_valid(self, transactions[i]).ok

\* files of two rows of which the second has an amount that does not parse
FilesWithBadAmount == { <<row, RowWithAmountIn(<<32>>)>> : row \in Rows }

\* C26: a load that returns an error for a row it cannot convert (date or
\* amount) leaves the tracker as it was before the call: the transactions and
\* the store are unchanged.
C26_FailedLoadLeavesTrackerUnchanged ==
    \A records \in Files \cup FilesWithBadAmount,
       generate_categories_and_sub \in BOOLEAN :
        LET r == load_transactions_from_file(self, records,
                                             generate_categories_and_sub)
        IN  ~r.ret.ok => r.self = self

\* the rows that parse
RowsThatParse == { transaction_csv \in Rows : TryFromRows[transaction_csv].ok }

\* the category of the store that the row names has a sub-category
CategoryOfRowHasSubcategories(transaction) ==
    \E category \in valid_categories :
        /\ NamesCategory(transaction, category)
        /\ category.subcategories # {}

\* C27: in a load that generates the taxonomy, a row that parses is rejected
\* iff it has no sub-category and its category has a sub-category when the
\* row is processed; a row with a sub-category is retained, also when the
\* category has that sub-category already; a rejected row is counted and
\* leaves the store as it was.
C27_RejectedIffSubcategoryMissing ==
    \A transaction_csv \in RowsThatParse :
        LET transaction == TryFromRows[transaction_csv].value
            r == load_transactions_from_file(self, <<transaction_csv>>, TRUE)
            rejected == r.self.transactions = transactions
        IN  /\ r.ret.ok
            /\ ~rejected => r.self.transactions = Append(transactions, transaction)
            /\ rejected <=> r.n_ignored_transactions = 1
            /\ rejected <=> /\ ~IsSome(transaction.subcategory_name)
                            /\ CategoryOfRowHasSubcategories(transaction)
            /\ rejected => r.self.valid_categories = valid_categories

\* C27 witness: a load that generates the taxonomy has retained a row whose
\* sub-category it created and, after it, has rejected a row of the same
\* category without sub-category; the store holds that category alone, and
\* a row that names its sub-category again would be retained.
C27_Witness ==
    /\ last.op = "load_transactions_from_file"
    /\ last.generate_categories_and_sub
    /\ last.ret = Ok
    /\ last.n_ignored_transactions = 1
    /\ Len(transactions) = 1
    /\ IsSome(transactions[1].subcategory_name)
    /\ Cardinality(valid_categories) = 1
    /\ \A category \in valid_categories :
           /\ NamesCategory(transactions[1], category)
           /\ Cardinality(category.subcategories) = 1
           /\ NamesSubcategoryOf(transactions[1].subcategory_name[1], category)

\* C28: validation does not edit the store.  add_transaction leaves
\* valid_categories as it was, whether it retains the transaction or not, and
\* leaves the list as it was when it rejects; is_transaction_valid only
\* returns its verdict, which add_transaction returns when it rejects; a load
\* that does not generate the taxonomy leaves valid_categories as it was for
\* every file, a file it fails on included.
C28_ValidationKeepsTaxonomy ==
    /\ \A transaction \in TransactionCandidates :
           LET valid == is_transaction_valid(self, transaction)
               added == add_transaction(self, transaction)
           IN  /\ added.self.valid_categories = valid_categories
               /\ added.ret = valid
               /\ ~valid.ok => added.self.transactions = transactions
               /\ valid.ok => added.self.transactions
                                  = Append(transactions, transaction)
    /\ \A records \in Files \cup FilesWithBadAmount :
           load_transactions_from_file(self, records, FALSE).self.valid_categories
               = valid_categories

\* C28 witness: a load that does not generate the taxonomy has just rejected
\* a row against a store that holds a category, and a transaction retained
\* before is still there.
C28_Witness ==
    /\ last.op = "load_transactions_from_file"
    /\ ~last.generate_categories_and_sub
    /\ last.ret = Ok
    /\ last.n_ignored_transactions = 1
    /\ Len(transactions) = 1
    /\ valid_categories # {}

\* the names of the categories of the tracker, each with the names of its
\* sub-categories
TaxonomyNames(tracker) ==
    { [name |-> category.name,
       subcategories |-> { subcategory.name :
                             subcategory \in category.subcategories }] :
        category \in tracker.valid_categories }

\* the two files hold the same rows, in any order
IsPermutation(records, permuted) ==
    /\ Len(records) = Len(permuted)
    /\ \E f \in [DOMAIN records -> DOMAIN records] :
           /\ \A i, j \in DOMAIN records : f[i] = f[j] => i = j
           /\ \A i \in DOMAIN records : permuted[i] = records[f[i]]

\* C29: loaded with generation of the taxonomy into an empty store, the rows
\* of a file leave the same names of categories, and for each category the
\* same names of sub-categories, in whatever order the file holds them.
C29_TaxonomyNamesIgnoreRowOrder ==
    valid_categories = {} =>
        \A records, permuted \in Files :
            IsPermutation(records, permuted) =>
                TaxonomyNames(load_transactions_from_file(self, records, TRUE).self)
                    = TaxonomyNames(load_transactions_from_file(self, permuted, TRUE).self)

\* the transactions the two validators are compared on: the candidates, the
\* inputs of add_transaction and the transactions the tracker retains
ValidatedTransactions ==
    TransactionCandidates \cup TransactionInputs
        \cup { transactions[i] : i \in DOMAIN transactions }

\* resolve_references on the transaction and the category get_category finds
\* for its name
Resolved(transaction) ==
    resolve_references(ParsedOf(transaction),
                       get_category(self, transaction.category_name))

\* C30: on the category the store holds for the name of the transaction,
\* resolve_references returns a Transaction exactly when is_transaction_valid
\* returns Ok, and the same error when it does not; the Transaction has the
\* date, amount, sub-category, tag and note of the parsed transaction and the
\* category it was resolved against.
C30_ValidatorsAgree ==
    \A transaction \in ValidatedTransactions :
        LET valid == is_transaction_valid(self, transaction)
            resolved == Resolved(transaction)
        IN  /\ resolved.ok <=> valid.ok
            /\ ~valid.ok => resolved = valid
            /\ valid.ok =>
                   /\ resolved.value.date = transaction.date
                   /\ resolved.value.amount = transaction.amount
                   /\ resolved.value.subcategory_name = transaction.subcategory_name
                   /\ resolved.value.tag = transaction.tag
                   /\ resolved.value.note = transaction.note
                   /\ Some(resolved.value.category)
                          = get_category(self, transaction.category_name)
                   /\ resolved.value.category \in valid_categories
                   /\ NamesCategory(transaction, resolved.value.category)

\* C30 witness: against the store of the state the validators both accept a
\* transaction with a sub-category and a tag, and both refuse another one
\* because its category does not hold its sub-category.
C30_Witness ==
    /\ \E transaction \in ValidatedTransactions :
           /\ IsSome(transaction.subcategory_name)
           /\ IsSome(transaction.tag)
           /\ Resolved(transaction).ok
           /\ is_transaction_valid(self, transaction).ok
    /\ \E transaction \in ValidatedTransactions :
           /\ Resolved(transaction) = Err(ErrSubcategoryNotInCategory)
           /\ is_transaction_valid(self, transaction)
                  = Err(ErrSubcategoryNotInCategory)

====
